---- MODULE Spec2Model ----
(***************************************************************************)
(* Model of the Claude Code wrapper: Session Registry (SessionManager),    *)
(* Connection Router (handleWebSocket), Process Supervisor                 *)
(* (ClaudeProcessSpawner) and Output Translator (OutputParser).            *)
(*                                                                         *)
(* Every `await` of the JavaScript source is a point where the handler     *)
(* suspends; a suspended handler is a record in the bag `tasks`, and the   *)
(* completion of the awaited call is an action of its own.  The code       *)
(* between two awaits runs to completion on the single-threaded event      *)
(* loop and is one atomic action.                                          *)
(***************************************************************************)
EXTENDS Integers, Sequences, FiniteSets, Bags, TLC

----------------------------------------------------------------------------
(* Bounds of the model *)

\* number of handlers that may be suspended on an await at the same time
MaxInFlight == 2

(* Program constants *)

\* session-manager.js: MAX_SESSIONS_PER_USER (environment, default '3');
\* the model runs the configuration MAX_SESSIONS_PER_USER=1
MAX_SESSIONS_PER_USER == 1

\* number of session records the persistence layer may create: enough to
\* exceed the limit of one user
MaxIds == MAX_SESSIONS_PER_USER + 1

None == "none"
\* the null of a session id (let currentSessionId = null)
NoId == 0
Conns == {"c1", "c2"}
Users == {"u1", "u2"}
Ids == 1..MaxIds

VARIABLES
  activeSessions,   \* SessionManager.activeSessions: id -> [socket, userId]
  userSessions,     \* SessionManager.userSessions: userId -> set of ids
  timer,            \* id -> the timeout handle held in session.timer is armed
  isRunning,        \* id -> ClaudeProcessSpawner.isRunning of the session's spawner
  kills,            \* id -> number of spawner.kill() calls made by endSession
  endNotes,         \* id -> number of session_end notifications sent by endSession
  updates,          \* id -> number of updateSessionStatus calls issued
  dbStatus,         \* id -> status column of the persisted session record
  nextId,           \* next id the persistence layer hands out
  readyState,       \* conn -> socket.readyState (1 = OPEN, 3 = CLOSED)
  currentSessionId, \* conn -> closure variable currentSessionId of handleWebSocket
  disconnectDone,   \* conn -> the close handler's handleSocketDisconnect has returned
  tasks,            \* bag of handlers suspended on an await
  op,               \* the call that ran last, with its outcome
  lastFrame,        \* the last frame that a message handler rejected
  frameSent,        \* what that handler sent on the socket
  endReturned,      \* what the endSession that returned in the last step returned
  input,            \* the text an OutputParser is given, whole
  fed,              \* how much of input has been passed to parse() so far
  remaining,        \* OutputParser.remaining
  events,           \* the events the parse() calls returned, concatenated
  apiKey,           \* ANTHROPIC_API_KEY is set in the environment
  process,          \* ClaudeProcessSpawner.process is set (the ChildProcess object)
  running,          \* ClaudeProcessSpawner.isRunning
  outputBuffer,     \* ClaudeProcessSpawner.outputBuffer
  child,            \* the operating-system process: "none", "running", "exited", "failed"
  exitStatus,       \* <<code, signal>> the child ended with
  exitEmitted,      \* the ChildProcess object has emitted 'exit' (or 'error')
  pipe,             \* stdout chunks written by the child, not yet delivered as 'data'
  written,          \* number of chunks the child has written
  emitted,          \* the notifications the spawner has emitted, in order
  sigterm,          \* number of SIGTERM sent to the child
  sigkill,          \* number of SIGKILL sent to the child
  killCalls,        \* number of kill() calls made on the spawner
  startCalls,       \* number of start() calls made on the spawner
  graceTimers,      \* number of pending 5 s timers set by kill()
  stdin,            \* the texts written to the child's stdin, in order
  writeCalls,       \* number of write() calls made on the spawner
  supRet,           \* how the last start() or write() call ended: returned, or what it threw
  received,         \* the stdout text delivered to the 'data' handler so far
  sigint,           \* number of SIGINT sent to the child
  msgContent,       \* MessageAggregator.currentMessage.content
  msgLists,         \* the arrays currentMessage holds: their place in heap
  heap,             \* the arrays the aggregator has created, five for each message
  currentTool,      \* MessageAggregator.currentTool: place in tool_calls, 0 for null
  currentFile,      \* MessageAggregator.currentFile: place in file_changes, 0 for null
  currentBash,      \* MessageAggregator.currentBash: place in bash_commands, 0 for null
  returned,         \* the records finalize() has returned, in order
  added,            \* the events given to addEvent since the last finalize()
  isAlive,          \* closure variable isAlive of handleWebSocket
  heartbeatTimer,   \* the interval of startHeartbeat is set (not yet cleared)
  socketState,      \* the heartbeat's socket: "open", "closing" or "closed"
  closeCode,        \* the status the socket was closed with by this side, 0 for none
  ticks,            \* number of times the interval's callback has run
  pongsSince,       \* number of pongs received since the callback ran last
  pingsSent,        \* number of socket.ping() calls
  closeCalls,       \* number of socket.close() calls made by the callback
  left,             \* id -> time left until the timeout held in session.timer is due
  since,            \* id -> time passed since the session's timeout was set last
  msgs,             \* number of message intents handled
  listening,        \* setupSpawnerListeners has attached the Router's listeners
  sockSent,         \* the notifications sent on the socket of the connection, in order
  inserted,         \* the messages given to insertMessage that were persisted, in order
  aborts,           \* number of abort intents handled
  owner             \* conn -> user.sub of the token the connection authenticated with

\* user.sub of handleWebSocket (websocket-handler.js line 11)
UserOf(c) == owner[c]

regVars == <<activeSessions, userSessions, timer, isRunning, kills, endNotes,
             updates, dbStatus, nextId, readyState, currentSessionId,
             disconnectDone, tasks, op, lastFrame, frameSent, endReturned>>
parVars == <<input, fed, remaining, events>>
supVars == <<apiKey, process, running, outputBuffer, child, exitStatus, exitEmitted,
             pipe, written, emitted, sigterm, sigkill, killCalls, startCalls, graceTimers,
             stdin, writeCalls, supRet, received, sigint>>
aggVars == <<msgContent, msgLists, heap, currentTool, currentFile, currentBash,
             returned, added>>
hbVars == <<isAlive, heartbeatTimer, socketState, closeCode, ticks, pongsSince,
            pingsSent, closeCalls>>
tmVars == <<left, since, msgs>>
rtVars == <<listening, sockSent, inserted, aborts>>
vars == <<regVars, parVars, supVars, aggVars, hbVars, tmVars, rtVars, owner>>
\* what the operations of each component leave alone
notReg == <<parVars, supVars, aggVars, hbVars, tmVars, rtVars, owner>>
notPar == <<regVars, supVars, aggVars, hbVars, tmVars, rtVars, owner>>
notSup == <<regVars, input, fed, events, aggVars, hbVars, tmVars, rtVars, owner>>
notAgg == <<regVars, parVars, supVars, hbVars, tmVars, rtVars, owner>>
notHb == <<regVars, parVars, supVars, aggVars, tmVars, rtVars, owner>>
\* what the Registry with its clock leaves alone
notTm == <<parVars, supVars, aggVars, hbVars, rtVars, owner>>
\* what the Router with the Supervisor of its session leaves alone
notRt == <<input, fed, events, hbVars, tmVars, owner>>

----------------------------------------------------------------------------
(* Session Registry: src/unnamed/part_001 (session-manager.js) *)

hasSession(id) == id \in DOMAIN activeSessions

getActiveSessionCount(u) ==
  IF u \in DOMAIN userSessions THEN Cardinality(userSessions[u]) ELSE 0

canCreateSession(u) == getActiveSessionCount(u) < MAX_SESSIONS_PER_USER

\* a status computed without the 'abort' case
StatusOfNoAbort(reason) ==
  IF reason = "error" THEN "error" ELSE "completed"

\* a status that keeps the reason 'timeout'
StatusOfTimeout(reason) ==
  IF reason \in {"error", "timeout"} THEN reason
  ELSE IF reason = "abort" THEN "aborted" ELSE "completed"

\* reason -> persisted status (endSession, lines 123-124)
StatusOf(reason) ==
  IF reason = "error" THEN "error"
  ELSE IF reason = "abort" THEN "aborted" ELSE "completed"

\* the object endSession returns (line 137), and the value of endReturned
\* after a step in which no endSession returned
Returned(id, reason, status) == [sessionId |-> id, reason |-> reason, status |-> status]
NoReturn == Returned(NoId, None, None)

\* a suspended handler: the intent or trigger it serves, the call it awaits,
\* and its local variables
Task(kind, pc, c, id, u, reason, rest) ==
  [kind |-> kind, pc |-> pc, conn |-> c, sid |-> id, user |-> u,
   reason |-> reason, rest |-> rest]

\* the record of a call: its name, the connection and session id it is made
\* for, and what it returned or threw ("pending" while it awaits); the
\* continuation of a call after its await is recorded as <name>.return
Op(name, c, id, ret) == [name |-> name, conn |-> c, sid |-> id, ret |-> ret]

InFlight == BagCardinality(tasks)
PendingCreates ==
  BagCardinality([t \in {x \in BagToSet(tasks) : x.pc = "createSession"} |-> tasks[t]])
Spawn(t) == tasks (+) SetToBag({t})
Resume(t, t2) == (tasks (-) SetToBag({t})) (+) SetToBag({t2})
Finish(t) == tasks (-) SetToBag({t})

----------------------------------------------------------------------------
(* Output Translator: src/unnamed/part_000 (output-parser.js), OutputParser *)
(* Text is a sequence of characters, each a one-character string; a        *)
(* character outside ASCII is written by its code point ("U+00E2").        *)

StartsWith(s, p) == Len(s) >= Len(p) /\ SubSeq(s, 1, Len(p)) = p
Drop(s, n) == SubSeq(s, n + 1, Len(s))

\* \s of a JavaScript regular expression, String.prototype.trim
IsSpace(ch) == ch \in {" ", "\t", "\r", "\n", "\f"}
\* . of a JavaScript regular expression (no s flag): any but a line terminator
IsDot(ch) == ch \notin {"\n", "\r"}
Digits == {"0", "1", "2", "3", "4", "5", "6", "7", "8", "9"}
Letters ==
  {"a", "b", "c", "d", "e", "f", "g", "h", "i", "j", "k", "l", "m", "n", "o", "p",
   "q", "r", "s", "t", "u", "v", "w", "x", "y", "z",
   "A", "B", "C", "D", "E", "F", "G", "H", "I", "J", "K", "L", "M", "N", "O", "P",
   "Q", "R", "S", "T", "U", "V", "W", "X", "Y", "Z"}
\* \w
IsWord(ch) == ch \in Letters \cup Digits \cup {"_"}
AllDot(s) == \A i \in 1..Len(s) : IsDot(s[i])

\* length of the longest prefix of s made of \s characters, of \w characters
RECURSIVE SpaceRun(_)
SpaceRun(s) ==
  IF s # <<>> /\ IsSpace(Head(s)) THEN 1 + SpaceRun(Tail(s)) ELSE 0
RECURSIVE WordRun(_)
WordRun(s) ==
  IF s # <<>> /\ IsWord(Head(s)) THEN 1 + WordRun(Tail(s)) ELSE 0

\* the alternatives of each pattern, as written in the source file
ToolCallMarks ==
  { <<"U+00E2", "U+00BA">>, <<"U+00E2", "U+2014">>,
    <<"U+00E2", "U+2013", "U+00B6">>, <<"U+00E2", "U+2013", "U+00BA">> }
ToolSuccessMarks ==
  { <<"U+00E2", "U+0153", "U+201C">>, <<"U+00E2", "U+0153", "U+201D">>,
    <<"U+00E2", "U+0153", "U+2026">> }
ToolErrorMarks ==
  { <<"U+00E2", "U+0153", "U+2014">>, <<"U+00E2", "U+0153", "U+02DC">>,
    <<"U+00E2", "U+0152">>, <<"E", "r", "r", "o", "r", ":">> }
FileMarks ==
  { <<"E", "d", "i", "t", "i", "n", "g">>, <<"W", "r", "i", "t", "i", "n", "g">>,
    <<"R", "e", "a", "d", "i", "n", "g">> }
BashMarks == { <<"$">>, <<"U+00E2", "U+20AC", "U+00BA">>, <<">">> }
ThinkingMarks ==
  { <<"T", "h", "i", "n", "k", "i", "n", "g">>,
    <<"U+011F", "U+0178", "U+00A4", "U+201D">>,
    <<"U+011F", "U+0178", "U+2019", "U+00AD">> }
ThinkingSeps == { <<":">>, <<".", ".", ".">> }
RuleChars ==
  {"U+00E2", "U+201D", "U+20AC", "U+2022", "U+201E", "U+02C6", "U+0152"}

\* the rests of `line` after each alternative of `marks` that it starts with
After(line, marks) == { Drop(line, Len(m)) : m \in {k \in marks : StartsWith(line, k)} }

\* \s*(.*)$ on r: the captured group, as a set (empty when there is no match)
StarRest(r) ==
  LET t == Drop(r, SpaceRun(r)) IN IF AllDot(t) THEN {t} ELSE {}

\* \s*(.+)$ on r: the spaces are taken greedily and given back one at a time
StarPlusRest(r) ==
  LET n == SpaceRun(r)
      t == Drop(r, n)
  IN  IF t # <<>> THEN (IF AllDot(t) THEN {t} ELSE {})
      ELSE IF n >= 1 /\ IsDot(r[n]) THEN {<<r[n]>>} ELSE {}

\* \s+(.+)$ on r
PlusPlusRest(r) ==
  LET n == SpaceRun(r)
      t == Drop(r, n)
  IN  IF n = 0 THEN {}
      ELSE IF t # <<>> THEN (IF AllDot(t) THEN {t} ELSE {})
      ELSE IF n >= 2 /\ IsDot(r[n]) THEN {<<r[n]>>} ELSE {}

\* \s*(\w+)(?:\s+(.*))?$ on r: the pairs <<tool name, parameters>>
ToolCallRest(r) ==
  LET t == Drop(r, SpaceRun(r))
      w == WordRun(t)
      u == Drop(t, w)
      v == Drop(u, SpaceRun(u))
  IN  IF w = 0 THEN {}
      ELSE IF u = <<>> THEN {<<SubSeq(t, 1, w), <<>>>>}
      ELSE IF SpaceRun(u) >= 1 /\ AllDot(v) THEN {<<SubSeq(t, 1, w), v>>}
      ELSE {}

Lower(ch) ==
  CASE ch = "T" -> "t" [] ch = "O" -> "o" [] ch = "K" -> "k" [] ch = "E" -> "e"
    [] ch = "N" -> "n" [] ch = "C" -> "c" [] ch = "S" -> "s" [] OTHER -> ch
\* /(?:tokens?|cost).*?(\d+(?:,\d+)?)/i matches somewhere in line
CostMatch(line) ==
  \E i \in 1..Len(line) : \E w \in {<<"t", "o", "k", "e", "n">>, <<"c", "o", "s", "t">>} :
    /\ i + Len(w) - 1 <= Len(line)
    /\ \A k \in 1..Len(w) : Lower(line[i + k - 1]) = w[k]
    /\ \E j \in (i + Len(w))..Len(line) :
         /\ line[j] \in Digits
         /\ \A k \in (i + Len(w))..(j - 1) : IsDot(line[k])

\* the matches of the patterns of _parseLine on line, each as the set of what
\* its groups capture (empty when the pattern does not match)
toolCallMatch(line) == UNION {ToolCallRest(r) : r \in After(line, ToolCallMarks)}
toolSuccessMatch(line) == UNION {StarRest(r) : r \in After(line, ToolSuccessMarks)}
toolErrorMatch(line) == UNION {StarRest(r) : r \in After(line, ToolErrorMarks)}
filePathMatch(line) == UNION {PlusPlusRest(r) : r \in After(line, FileMarks)}
bashMatch(line) == UNION {StarPlusRest(r) : r \in After(line, BashMarks)}
thinkingMatch(line) ==
  UNION {StarRest(r) : r \in UNION {After(q, ThinkingSeps) : q \in After(line, ThinkingMarks)}}

\* !line.trim(), /^[...]+$/ and /^[-=]+$/ (line 239)
IsBlank(line) == \A i \in 1..Len(line) : IsSpace(line[i])
IsRule(line) == line # <<>> /\ \A i \in 1..Len(line) : line[i] \in RuleChars
IsDashRun(line) == line # <<>> /\ \A i \in 1..Len(line) : line[i] \in {"-", "="}

\* the rules of _parseLine in the order of its if statements, and whether the
\* condition of each holds of line
RuleOrder ==
  << "tool_call", "tool_result_success", "tool_result_failure", "file_edit",
     "diff_add", "diff_remove", "bash_command", "thinking", "usage",
     "suppressed", "text" >>
RuleMatches(rule, line) ==
  CASE rule = "tool_call" -> toolCallMatch(line) # {}
    [] rule = "tool_result_success" -> toolSuccessMatch(line) # {}
    [] rule = "tool_result_failure" -> toolErrorMatch(line) # {}
    [] rule = "file_edit" -> filePathMatch(line) # {}
    [] rule = "diff_add" -> StartsWith(line, <<"+">>) /\ ~StartsWith(line, <<"+", "+", "+">>)
    [] rule = "diff_remove" -> StartsWith(line, <<"-">>) /\ ~StartsWith(line, <<"-", "-", "-">>)
    [] rule = "bash_command" -> bashMatch(line) # {}
    [] rule = "thinking" -> thinkingMatch(line) # {}
    [] rule = "usage" -> CostMatch(line)
    [] rule = "suppressed" -> IsBlank(line) \/ IsRule(line) \/ IsDashRun(line)
    [] rule = "text" -> TRUE

\* the rule an event of _parseLine comes from
RuleOf(e) ==
  IF e.event_type = "null" THEN "suppressed"
  ELSE IF e.event_type = "tool_result"
       THEN (IF e.success THEN "tool_result_success" ELSE "tool_result_failure")
       ELSE e.event_type

Pick(S) == CHOOSE x \in S : TRUE

\* the null a line without event yields
NoEvent == [event_type |-> "null"]

\* _parseLine testing the cost pattern first
_parseLineUsageFirst(line) ==
  IF CostMatch(line) THEN [event_type |-> "usage", raw |-> line]
  ELSE IF StartsWith(line, <<"+">>) /\ ~StartsWith(line, <<"+", "+", "+">>)
  THEN [event_type |-> "diff_add", content |-> Drop(line, 1)]
  ELSE IF IsBlank(line) THEN NoEvent
  ELSE [event_type |-> "text", content |-> line]

\* OutputParser._parseLine: the event of one line, NoEvent when the line has none
_parseLine(line) ==
  IF UNION {ToolCallRest(r) : r \in After(line, ToolCallMarks)} # {}
  THEN LET m == Pick(UNION {ToolCallRest(r) : r \in After(line, ToolCallMarks)})
       IN  [event_type |-> "tool_call", tool_name |-> m[1], parameters |-> m[2],
            status |-> "started"]
  ELSE IF UNION {StarRest(r) : r \in After(line, ToolSuccessMarks)} # {}
  THEN [event_type |-> "tool_result",
        result |-> Pick(UNION {StarRest(r) : r \in After(line, ToolSuccessMarks)}),
        success |-> TRUE]
  ELSE IF UNION {StarRest(r) : r \in After(line, ToolErrorMarks)} # {}
  THEN [event_type |-> "tool_result",
        result |-> Pick(UNION {StarRest(r) : r \in After(line, ToolErrorMarks)}),
        success |-> FALSE]
  ELSE IF UNION {PlusPlusRest(r) : r \in After(line, FileMarks)} # {}
  THEN [event_type |-> "file_edit",
        file_path |-> Pick(UNION {PlusPlusRest(r) : r \in After(line, FileMarks)}),
        action |-> IF StartsWith(line, <<"E", "d", "i", "t", "i", "n", "g">>) THEN "edit"
                   ELSE IF StartsWith(line, <<"W", "r", "i", "t", "i", "n", "g">>)
                        THEN "write" ELSE "read"]
  ELSE IF StartsWith(line, <<"+">>) /\ ~StartsWith(line, <<"+", "+", "+">>)
  THEN [event_type |-> "diff_add", content |-> Drop(line, 1)]
  ELSE IF StartsWith(line, <<"-">>) /\ ~StartsWith(line, <<"-", "-", "-">>)
  THEN [event_type |-> "diff_remove", content |-> Drop(line, 1)]
  ELSE IF UNION {StarPlusRest(r) : r \in After(line, BashMarks)} # {}
  THEN [event_type |-> "bash_command",
        command |-> Pick(UNION {StarPlusRest(r) : r \in After(line, BashMarks)}),
        status |-> "started"]
  ELSE IF UNION {StarRest(r) : r \in UNION {After(q, ThinkingSeps) :
                                            q \in After(line, ThinkingMarks)}} # {}
  THEN [event_type |-> "thinking",
        content |-> Pick(UNION {StarRest(r) : r \in UNION {After(q, ThinkingSeps) :
                                            q \in After(line, ThinkingMarks)}})]
  ELSE IF CostMatch(line)
  THEN [event_type |-> "usage", raw |-> line]
  ELSE IF \/ \A i \in 1..Len(line) : IsSpace(line[i])
          \/ line # <<>> /\ \A i \in 1..Len(line) : line[i] \in RuleChars
          \/ line # <<>> /\ \A i \in 1..Len(line) : line[i] \in {"-", "="}
  THEN NoEvent
  ELSE [event_type |-> "text", content |-> line]

\* String.prototype.split('\n'): the pieces between the line feeds
RECURSIVE SplitLines(_)
SplitLines(s) ==
  IF \E i \in 1..Len(s) : s[i] = "\n"
  THEN LET i == CHOOSE k \in 1..Len(s) : s[k] = "\n" /\ \A j \in 1..(k - 1) : s[j] # "\n"
       IN  <<SubSeq(s, 1, i - 1)>> \o SplitLines(Drop(s, i))
  ELSE <<s>>

RECURSIVE LineEvents(_)
LineEvents(lines) ==
  IF lines = <<>> THEN <<>>
  ELSE LET e == _parseLine(Head(lines))
       IN  (IF e = NoEvent THEN <<>> ELSE <<e>>) \o LineEvents(Tail(lines))

\* the initial this.remaining (constructor, reset)
NoRemaining == <<>>

\* parse() forgetting the incomplete line kept by the call before
parseForgetful(rem, buffer) ==
  LET lines == SplitLines(buffer)
  IN  [events |-> LineEvents(SubSeq(lines, 1, Len(lines) - 1)),
       remaining |-> lines[Len(lines)]]

\* OutputParser.parse(buffer) with this.remaining = rem:
\* the returned events and the new this.remaining
parse(rem, buffer) ==
  LET fullBuffer == rem \o buffer
      lines == SplitLines(fullBuffer)
  IN  [events |-> LineEvents(SubSeq(lines, 1, Len(lines) - 1)),
       remaining |-> lines[Len(lines)]]

----------------------------------------------------------------------------
(* The Output Translator fed chunk by chunk *)

\* length of the texts given to the parser
MaxLen == 4
Alphabet == {"\n", "a", "+", "-", " "}
Texts == UNION {[1..n -> Alphabet] : n \in 0..MaxLen}

ParInit ==
  /\ input \in Texts
  /\ fed = 0
  /\ remaining = NoRemaining
  /\ events = <<>>

\* one parse() call on the next k characters of the input
ParseChunk(k) ==
  /\ fed + k <= Len(input)
  /\ LET r == parse(remaining, SubSeq(input, fed + 1, fed + k))
     IN  /\ events' = events \o r.events
         /\ remaining' = r.remaining
  /\ fed' = fed + k
  /\ UNCHANGED input

----------------------------------------------------------------------------
(* The Output Translator fed whole lines, parts of lines and line feeds *)

\* number of line feeds given to the parser, the scenario apart
MaxLines == 2

\* lines the child may print: one or more for each rule of _parseLine, lines
\* that more than one rule matches, and the glyphs U+203A and U+2713
SampleLines ==
  { <<"U+00E2", "U+00BA", " ", "R", " ", "f">>,
    <<"U+00E2", "U+0153", "U+201C", " ", "o", "k">>,
    <<"E", "r", "r", "o", "r", ":", " ", "1", " ", "t", "o", "k", "e", "n">>,
    <<"E", "d", "i", "t", "i", "n", "g", " ", "f">>,
    <<"+", "a">>,
    <<"+", "c", "o", "s", "t", " ", "1">>,
    <<"+", "+", "+">>,
    <<"-", "a">>,
    <<"-">>,
    <<"-", "-">>,
    <<"-", "-", "-">>,
    <<"=">>,
    <<"=", "=">>,
    <<"$", " ", "l", "s">>,
    <<">", " ", "c", "o", "s", "t", " ", "1">>,
    <<"T", "h", "i", "n", "k", "i", "n", "g", ":", " ", "x">>,
    <<"t", "o", "k", "e", "n", "s", " ", "5">>,
    <<>>,
    <<" ">>,
    <<"U+00E2", "U+201D", "U+20AC">>,
    <<"H", "e", "l", "l", "o", " ", "w", "o", "r", "l", "d">>,
    <<"U+203A", " ", "l", "s", " ", "-", "l", "a">>,
    <<"U+2713", " ", "d", "o", "n", "e">> }

\* five lines printed in one chunk
ScenarioChunk ==
  << "U+203A", " ", "l", "s", " ", "-", "l", "a", "\n", "U+2713",
     " ", "d", "o", "n", "e", "\n", "H", "e", "l", "l",
     "o", " ", "w", "o", "r", "l", "d", "\n", "+", "a",
     "d", "d", "e", "d", "\n", "-", "r", "e", "m", "o",
     "v", "e", "d", "\n" >>

\* beginnings of lines printed without their line feed
PartLines == { <<"-">> }

\* the number of line feeds in text
NumLines(text) == Len(SplitLines(text)) - 1

\* one parse() call on chunk
Feed(chunk) ==
  /\ input' = input \o chunk
  /\ fed' = Len(input) + Len(chunk)
  /\ LET r == parse(remaining, chunk)
     IN  /\ events' = events \o r.events
         /\ remaining' = r.remaining

\* the child prints a whole line
FeedLine(l) == NumLines(input) < MaxLines /\ Feed(l \o <<"\n">>)

\* the child prints the beginning of a line, the chunk ends there
FeedPart(l) == NumLines(input) < MaxLines /\ remaining = <<>> /\ Feed(l)

\* the child prints the five lines in one chunk
FeedScenario == input = <<>> /\ Feed(ScenarioChunk)

----------------------------------------------------------------------------
(* Session Registry and Connection Router: the operations *)

RegInit ==
  /\ activeSessions = [i \in {} |-> None]
  /\ userSessions = [u \in {} |-> {}]
  /\ timer = [i \in Ids |-> FALSE]
  /\ isRunning = [i \in Ids |-> FALSE]
  /\ kills = [i \in Ids |-> 0]
  /\ endNotes = [i \in Ids |-> 0]
  /\ updates = [i \in Ids |-> 0]
  /\ dbStatus = [i \in Ids |-> "none"]
  /\ nextId = 1
  /\ readyState = [c \in Conns |-> 1]
  /\ currentSessionId = [c \in Conns |-> NoId]
  /\ disconnectDone = [c \in Conns |-> FALSE]
  /\ tasks = EmptyBag
  /\ op = Op("constructor", None, NoId, None)
  /\ lastFrame = None
  /\ frameSent = <<>>
  /\ endReturned = NoReturn

\* the capacity check off by one
StartAllowedOffByOne(u) == getActiveSessionCount(u) <= MAX_SESSIONS_PER_USER

\* startSession, lines 34-36: the capacity check made before createSession
StartAllowed(u) == canCreateSession(u)

\* startSession after createSession resolved with record id (lines 40-66):
\* the spawner, the timer and both indices
Register(id, c, u) ==
  /\ timer' = [timer EXCEPT ![id] = TRUE]
  /\ activeSessions' = (id :> [socket |-> c, userId |-> u]) @@ activeSessions
  /\ userSessions' =
       (u :> ((IF u \in DOMAIN userSessions THEN userSessions[u] ELSE {}) \cup {id}))
         @@ userSessions

\* resetTimeout(id) for a registered id: clearTimeout, then a new timer
resetTimeout(id) ==
  timer' = [timer EXCEPT ![id] = TRUE]

\* endSession(id) of a registered id up to its await (lines 104-125), the
\* timeout handles being tm and the sockets' states rs when it is called:
\* clearTimeout, kill(), the session_end notification when the socket is
\* open, updateSessionStatus issued
EndSessionCall(id, tm, rs) ==
  /\ timer' = [tm EXCEPT ![id] = FALSE]
  /\ kills' = [kills EXCEPT ![id] = @ + 1]
  /\ endNotes' = [endNotes EXCEPT
                    ![id] = IF rs[activeSessions[id].socket] = 1 THEN @ + 1 ELSE @]
  /\ updates' = [updates EXCEPT ![id] = @ + 1]

\* endSession without its early return: the status is updated all the same
EndSessionUnknownUpdates(id) ==
  /\ updates' = [updates EXCEPT ![id] = @ + 1]
  /\ UNCHANGED <<kills, endNotes>>

\* endSession(id) of an id that is not registered (line 101): it returns at once
EndSessionUnknown(id) == UNCHANGED <<kills, endNotes, updates>>

\* a removal that leaves the owner's empty set in userSessions
UnregisterKeepsEmpty(id, u) ==
  /\ activeSessions' = [i \in DOMAIN activeSessions \ {id} |-> activeSessions[i]]
  /\ userSessions' =
       IF u \notin DOMAIN userSessions THEN userSessions
       ELSE [userSessions EXCEPT ![u] = @ \ {id}]

\* endSession after updateSessionStatus resolved (lines 128-137)
Unregister(id, u) ==
  /\ activeSessions' = [i \in DOMAIN activeSessions \ {id} |-> activeSessions[i]]
  /\ userSessions' =
       IF u \notin DOMAIN userSessions THEN userSessions
       ELSE IF userSessions[u] \ {id} = {}
            THEN [v \in DOMAIN userSessions \ {u} |-> userSessions[v]]
            ELSE [userSessions EXCEPT ![u] = @ \ {id}]

Min(S) == CHOOSE x \in S : \A y \in S : x <= y

\* handleUserMessage (websocket-handler.js 120-178) up to its first await
IntentMessage(c, msid) ==
  /\ readyState[c] = 1
  /\ LET sessionId == IF currentSessionId[c] # NoId THEN currentSessionId[c] ELSE msid
     IN  IF sessionId = NoId \/ ~hasSession(sessionId)
         THEN IF ~StartAllowed(UserOf(c))
              THEN \* startSession throws, the catch at 166 reports it
                   /\ op' = Op("startSession", c, NoId, "CapacityError")
                   /\ UNCHANGED <<tasks, timer>>
              ELSE /\ InFlight < MaxInFlight
                   /\ nextId + PendingCreates <= MaxIds
                   /\ tasks' = Spawn(Task("message", "createSession", c, NoId,
                                          UserOf(c), None, {}))
                   /\ op' = Op("startSession", c, NoId, "pending")
                   /\ UNCHANGED timer
         ELSE /\ InFlight < MaxInFlight
              /\ resetTimeout(sessionId)
              /\ tasks' = Spawn(Task("message", "insertMessage", c, sessionId,
                                     UserOf(c), None, {}))
              /\ op' = Op("resetTimeout", c, sessionId, "armed")
  /\ UNCHANGED <<activeSessions, userSessions, isRunning, kills, endNotes, updates,
                 dbStatus, nextId, readyState, currentSessionId, disconnectDone>>
  /\ UNCHANGED <<lastFrame, frameSent>>
  /\ endReturned' = NoReturn

\* createSession resolved: startSession 40-66, then handleUserMessage 147-181
\* (setSessionId, session_started, spawner.start(), listeners, insertMessage issued)
MessageCreated(t) ==
  /\ t.pc = "createSession"
  /\ nextId <= MaxIds
  /\ LET id == nextId IN
       /\ nextId' = id + 1
       /\ dbStatus' = [dbStatus EXCEPT ![id] = "active"]
       /\ Register(id, t.conn, t.user)
       /\ currentSessionId' = [currentSessionId EXCEPT ![t.conn] = id]
       /\ isRunning' = [isRunning EXCEPT ![id] = TRUE]
       /\ tasks' = Resume(t, Task("message", "insertMessage", t.conn, id, t.user, None, {}))
       /\ op' = Op("startSession.return", t.conn, id, "ok")
  /\ UNCHANGED <<kills, endNotes, updates, readyState, disconnectDone>>
  /\ UNCHANGED <<lastFrame, frameSent>>
  /\ endReturned' = NoReturn

\* insertMessage resolved: message_received, spawner.write (183-199)
MessageInserted(t) ==
  /\ t.pc = "insertMessage"
  /\ tasks' = Finish(t)
  /\ op' = Op("write", t.conn, t.sid,
              IF isRunning[t.sid] THEN "ok" ELSE "Process not running")
  /\ UNCHANGED <<activeSessions, userSessions, timer, isRunning, kills, endNotes,
                 updates, dbStatus, nextId, readyState, currentSessionId, disconnectDone>>
  /\ UNCHANGED <<lastFrame, frameSent>>
  /\ endReturned' = NoReturn

\* a message intent of a client that sends the next message only when the
\* session_started of the one before has arrived: no handler is awaiting
\* a session creation when it is handled
MessageInTurn(c, msid) == PendingCreates = 0 /\ IntentMessage(c, msid)

\* 'end_session' (77-82) and 'new_session' (84-95) intents up to the await
IntentEnd(c, kind) ==
  /\ readyState[c] = 1
  /\ LET cur == currentSessionId[c]
         reason == IF kind = "end_session" THEN "user_ended" ELSE "new_session"
     IN  IF cur = NoId
         THEN /\ op' = Op(kind, c, NoId,
                          IF kind = "new_session" THEN "session_cleared" ELSE "noop")
              /\ UNCHANGED <<tasks, currentSessionId, timer, kills, endNotes, updates>>
         ELSE IF ~hasSession(cur)
         THEN /\ op' = Op("endSession", c, cur, "undefined")
              /\ EndSessionUnknown(cur)
              /\ currentSessionId' = [currentSessionId EXCEPT ![c] = NoId]
              /\ UNCHANGED <<tasks, timer>>
         ELSE /\ InFlight < MaxInFlight
              /\ EndSessionCall(cur, timer, readyState)
              /\ tasks' = Spawn(Task(kind, "updateSessionStatus", c, cur,
                                     activeSessions[cur].userId, reason, {}))
              /\ op' = Op("endSession", c, cur, "pending")
              /\ UNCHANGED currentSessionId
  /\ UNCHANGED <<activeSessions, userSessions, isRunning, dbStatus, nextId,
                 readyState, disconnectDone>>
  /\ UNCHANGED <<lastFrame, frameSent>>
  /\ endReturned' = NoReturn

\* the timeout callback (46-48, 90-92)
TimerFire(id) ==
  /\ timer[id]
  /\ IF hasSession(id)
     THEN /\ InFlight < MaxInFlight
          /\ EndSessionCall(id, [timer EXCEPT ![id] = FALSE], readyState)
          /\ tasks' = Spawn(Task("timeout", "updateSessionStatus", None, id,
                                 activeSessions[id].userId, "timeout", {}))
          /\ op' = Op("endSession", None, id, "pending")
     ELSE /\ EndSessionUnknown(id)
          /\ timer' = [timer EXCEPT ![id] = FALSE]
          /\ op' = Op("endSession", None, id, "undefined")
          /\ UNCHANGED tasks
  /\ UNCHANGED <<activeSessions, userSessions, isRunning, dbStatus, nextId,
                 readyState, currentSessionId, disconnectDone>>
  /\ UNCHANGED <<lastFrame, frameSent>>
  /\ endReturned' = NoReturn

\* the 'close' handler (106-109): handleSocketDisconnect (143-155) up to the
\* await of its first endSession
Close(c) ==
  /\ readyState[c] = 1
  /\ readyState' = [readyState EXCEPT ![c] = 3]
  /\ LET sessionsToEnd == {i \in DOMAIN activeSessions : activeSessions[i].socket = c}
     IN  IF sessionsToEnd = {}
         THEN /\ disconnectDone' = [disconnectDone EXCEPT ![c] = TRUE]
              /\ op' = Op("handleSocketDisconnect", c, NoId, "done")
              /\ UNCHANGED <<tasks, timer, kills, endNotes, updates>>
         ELSE /\ InFlight < MaxInFlight
              /\ LET id == Min(sessionsToEnd) IN
                   /\ EndSessionCall(id, timer, readyState')
                   /\ tasks' = Spawn(Task("close", "updateSessionStatus", c, id,
                                          activeSessions[id].userId, "disconnect",
                                          sessionsToEnd \ {id}))
                   /\ op' = Op("endSession", c, id, "pending")
              /\ UNCHANGED disconnectDone
  /\ UNCHANGED <<activeSessions, userSessions, isRunning, dbStatus, nextId,
                 currentSessionId>>
  /\ UNCHANGED <<lastFrame, frameSent>>
  /\ endReturned' = NoReturn

\* an 'abort' intent (websocket-handler.js line 70, handleAbort 244-252);
\* msid is message.session_id.  "called" records that abort() was called on
\* the spawner of the session, whose effect is on the spawner alone.
IntentAbort(c, msid) ==
  /\ readyState[c] = 1
  /\ LET sessionId == IF msid # NoId THEN msid ELSE currentSessionId[c]
     IN  op' = Op("abort", c, sessionId,
                  IF sessionId # NoId /\ hasSession(sessionId) THEN "called" ELSE "noop")
  /\ UNCHANGED <<activeSessions, userSessions, timer, isRunning, kills, endNotes,
                 updates, dbStatus, nextId, readyState, currentSessionId,
                 disconnectDone, tasks>>
  /\ UNCHANGED <<lastFrame, frameSent>>
  /\ endReturned' = NoReturn

\* cleanup() (lines 160-165), called by the shutdown handler (server.js
\* lines 178-186), up to the await of its first endSession
Cleanup ==
  /\ LET sessionIds == DOMAIN activeSessions
     IN  IF sessionIds = {}
         THEN /\ op' = Op("cleanup", None, NoId, "done")
              /\ UNCHANGED <<tasks, timer, kills, endNotes, updates>>
         ELSE /\ InFlight < MaxInFlight
              /\ LET id == Min(sessionIds) IN
                   /\ EndSessionCall(id, timer, readyState)
                   /\ tasks' = Spawn(Task("cleanup", "updateSessionStatus", None, id,
                                          activeSessions[id].userId, "shutdown",
                                          sessionIds \ {id}))
                   /\ op' = Op("endSession", None, id, "pending")
  /\ UNCHANGED <<activeSessions, userSessions, isRunning, dbStatus, nextId,
                 readyState, currentSessionId, disconnectDone>>
  /\ UNCHANGED <<lastFrame, frameSent>>
  /\ endReturned' = NoReturn

\* the reasons endSession is called with: those of its callers in the
\* repository (lines 47, 91, 153, 163, websocket-handler.js 79 and 87), the
\* default of the parameter, and the two the status distinguishes
EndReasons == {"timeout", "disconnect", "shutdown", "user_ended", "new_session",
               "normal", "error", "abort"}

\* a call endSession(id, reason) up to its await (lines 99-125)
EndSession(id, reason) ==
  /\ IF hasSession(id)
     THEN /\ InFlight < MaxInFlight
          /\ EndSessionCall(id, timer, readyState)
          /\ tasks' = Spawn(Task("endSession", "updateSessionStatus", None, id,
                                 activeSessions[id].userId, reason, {}))
          /\ op' = Op("endSession", None, id, "pending")
     ELSE /\ EndSessionUnknown(id)
          /\ op' = Op("endSession", None, id, "undefined")
          /\ UNCHANGED <<tasks, timer>>
  /\ UNCHANGED <<activeSessions, userSessions, isRunning, dbStatus, nextId,
                 readyState, currentSessionId, disconnectDone>>
  /\ UNCHANGED <<lastFrame, frameSent>>
  /\ endReturned' = NoReturn

\* updateSessionStatus resolved: endSession 128-137, then the caller's continuation
EndSessionDone(t) ==
  /\ t.pc = "updateSessionStatus"
  /\ dbStatus' = [dbStatus EXCEPT ![t.sid] = StatusOf(t.reason)]
  /\ Unregister(t.sid, t.user)
  /\ LET live == {i \in t.rest : i \in DOMAIN activeSessions /\ i # t.sid}
     IN  IF t.kind \in {"close", "cleanup"} /\ live # {}
         THEN \* the loop of handleSocketDisconnect or cleanup: the next endSession
              LET id == Min(live) IN
                /\ EndSessionCall(id, timer, readyState)
                /\ tasks' = Resume(t, Task(t.kind, "updateSessionStatus", t.conn, id,
                                           activeSessions[id].userId, t.reason,
                                           {i \in t.rest : i > id}))
                /\ op' = Op("endSession", t.conn, id, "pending")
                /\ UNCHANGED <<currentSessionId, disconnectDone>>
         ELSE /\ tasks' = Finish(t)
              /\ op' = Op("endSession.return", t.conn, t.sid, StatusOf(t.reason))
              /\ currentSessionId' =
                   IF t.kind \in {"end_session", "new_session"}
                   THEN [currentSessionId EXCEPT ![t.conn] = NoId]
                   ELSE currentSessionId
              /\ disconnectDone' =
                   IF t.kind = "close"
                   THEN [disconnectDone EXCEPT ![t.conn] = TRUE]
                   ELSE disconnectDone
              /\ UNCHANGED <<timer, kills, endNotes, updates>>
  /\ UNCHANGED <<isRunning, nextId, readyState>>
  /\ UNCHANGED <<lastFrame, frameSent>>
  /\ endReturned' = Returned(t.sid, t.reason, StatusOf(t.reason))

\* the frames a message handler rejects: text that is not JSON, the JSON
\* value null, an object whose type is none of the intents (or is missing),
\* and a message intent whose content is missing, empty or blank
BadFrame(json, null, type, content) ==
  [json |-> json, null |-> null, type |-> type, content |-> content]
BadFrames ==
  { BadFrame(FALSE, FALSE, "undefined", <<>>),
    BadFrame(TRUE, TRUE, "undefined", <<>>),
    BadFrame(TRUE, FALSE, "undefined", <<>>),
    BadFrame(TRUE, FALSE, "bogus", <<>>),
    BadFrame(TRUE, FALSE, "message", <<>>),
    BadFrame(TRUE, FALSE, "message", <<" ">>) }

ErrorNote(message) == [type |-> "error", message |-> message]

\* the handler sending nothing for a type it does not know
HandleBadFrameSilent(c, f) ==
  /\ readyState[c] = 1
  /\ lastFrame' = f
  /\ op' = Op("frame", c, NoId, IF f.json /\ f.null THEN "TypeError" ELSE "returned")
  /\ frameSent' =
       IF ~f.json THEN <<ErrorNote("Invalid JSON")>>
       ELSE IF f.type = "message" /\ ~f.null THEN <<ErrorNote("Empty message content")>>
       ELSE <<>>
  /\ UNCHANGED <<activeSessions, userSessions, timer, isRunning, kills, endNotes,
                 updates, dbStatus, nextId, readyState, currentSessionId,
                 disconnectDone, tasks>>
  /\ endReturned' = NoReturn

\* the 'message' handler (lines 49-103) and handleUserMessage (lines 120-131)
\* on a frame of BadFrames: JSON.parse throws (50-59); message.type of null
\* throws a TypeError in the handler; a message intent without content
\* (125-131); the default case (97-101)
HandleBadFrame(c, f) ==
  /\ readyState[c] = 1
  /\ lastFrame' = f
  /\ op' = Op("frame", c, NoId, IF f.json /\ f.null THEN "TypeError" ELSE "returned")
  /\ frameSent' =
       IF ~f.json THEN <<ErrorNote("Invalid JSON")>>
       ELSE IF f.null THEN <<>>
       ELSE IF f.type = "message"
       THEN (IF IsBlank(f.content) THEN <<ErrorNote("Empty message content")>> ELSE <<>>)
       ELSE <<ErrorNote("Unknown message type")>>
  /\ UNCHANGED <<activeSessions, userSessions, timer, isRunning, kills, endNotes,
                 updates, dbStatus, nextId, readyState, currentSessionId,
                 disconnectDone, tasks>>
  /\ endReturned' = NoReturn

----------------------------------------------------------------------------
(* Process Supervisor: src/src/process-spawner.js, one ClaudeProcessSpawner *)

\* number of stdout chunks the child writes
MaxChunks == 2
\* number of kill() calls made on the spawner
MaxKills == 1
\* number of start() calls made on the spawner
MaxStarts == 2
\* the chunks a child may write
Chunks == { <<"a">>, <<"\n">>, <<"a", "\n">> }
\* the ways a child ends: <<exit code, signal>>, a null code written -1
ExitStatuses == { <<0, None>>, <<1, None>>, <<-1, "SIGTERM">>, <<-1, "SIGKILL">>,
                  <<-1, "SIGINT">> }

SupIdle ==
  /\ apiKey = TRUE
  /\ process = FALSE
  /\ running = FALSE
  /\ outputBuffer = <<>>
  /\ child = "none"
  /\ exitStatus = <<-1, None>>
  /\ exitEmitted = FALSE
  /\ pipe = <<>>
  /\ written = 0
  /\ emitted = <<>>
  /\ sigterm = 0
  /\ sigkill = 0
  /\ killCalls = 0
  /\ startCalls = 0
  /\ graceTimers = 0
  /\ stdin = <<>>
  /\ writeCalls = 0
  /\ supRet = None
  /\ received = <<>>
  /\ sigint = 0

\* the spawner after its constructor (lines 9-18), the key set or not
SupInit ==
  /\ apiKey \in BOOLEAN
  /\ process = FALSE
  /\ running = FALSE
  /\ outputBuffer = <<>>
  /\ child = "none"
  /\ exitStatus = <<-1, None>>
  /\ exitEmitted = FALSE
  /\ pipe = <<>>
  /\ written = 0
  /\ emitted = <<>>
  /\ sigterm = 0
  /\ sigkill = 0
  /\ killCalls = 0
  /\ startCalls = 0
  /\ graceTimers = 0
  /\ stdin = <<>>
  /\ writeCalls = 0
  /\ supRet = None
  /\ received = <<>>
  /\ sigint = 0

Notify(kind, data) == [kind |-> kind, data |-> data]

\* a reason derived from the exit code alone
ExitReasonByCode(code, signal) ==
  IF code = 0 THEN "normal" ELSE "error"

\* the reason of the exit notification (line 98)
ExitReason(code, signal) ==
  IF signal # None THEN "signal" ELSE IF code = 0 THEN "normal" ELSE "error"

\* the data of the exit notification (lines 95-99)
ExitData(code, signal) ==
  [exit_code |-> code, signal |-> signal, reason |-> ExitReason(code, signal)]

\* start() without the test of the API key
StartWithoutKeyCheck(spawned) ==
  /\ startCalls < MaxStarts
  /\ startCalls' = startCalls + 1
  /\ IF running
     THEN UNCHANGED <<process, running, child, emitted>>
     ELSE /\ child = "none"
          /\ process' = TRUE
          /\ running' = TRUE
          /\ child' = IF spawned THEN "running" ELSE "failed"
          /\ UNCHANGED emitted
  /\ supRet' = IF running THEN "Process already running" ELSE "returned"
  /\ UNCHANGED <<apiKey, outputBuffer, remaining, exitStatus, exitEmitted, pipe, written,
                 sigterm, sigkill, killCalls, graceTimers, stdin, writeCalls,
                 received, sigint>>

\* start() (lines 23-122); spawned tells whether the executable could be
\* spawned.  A spawner is started again only while it has no child yet or is
\* still running.
Start(spawned) ==
  /\ startCalls < MaxStarts
  /\ startCalls' = startCalls + 1
  /\ IF running
     THEN \* throws 'Process already running'
          UNCHANGED <<process, running, child, emitted>>
     ELSE /\ child = "none"
          /\ IF ~apiKey
             THEN /\ emitted' = Append(emitted, Notify("process_error", "config"))
                  /\ UNCHANGED <<process, running, child>>
             ELSE /\ process' = TRUE
                  /\ running' = TRUE
                  /\ child' = IF spawned THEN "running" ELSE "failed"
                  /\ UNCHANGED emitted
  /\ supRet' = IF running THEN "Process already running" ELSE "returned"
  /\ UNCHANGED <<apiKey, outputBuffer, remaining, exitStatus, exitEmitted, pipe, written,
                 sigterm, sigkill, killCalls, graceTimers, stdin, writeCalls,
                 received, sigint>>

\* the child writes a chunk to its stdout
ChildWrite(chunk) ==
  /\ child = "running"
  /\ written < MaxChunks
  /\ pipe' = Append(pipe, chunk)
  /\ written' = written + 1
  /\ UNCHANGED <<apiKey, process, running, outputBuffer, remaining, child, exitStatus,
                 exitEmitted, emitted, sigterm, sigkill, killCalls, startCalls, graceTimers>>
  /\ UNCHANGED <<stdin, writeCalls, supRet, received, sigint>>

\* _processBuffer (lines 127-142) on outputBuffer buf, the parser holding rem
ProcessBuffer(buf, rem) ==
  LET r == parse(rem, buf)
  IN  /\ emitted' = emitted \o [i \in 1..Len(r.events) |-> Notify("output", r.events[i])]
      /\ remaining' = r.remaining
      /\ outputBuffer' = r.remaining

\* the stdout 'data' handler (lines 70-74)
StdoutData ==
  /\ pipe # <<>>
  /\ ProcessBuffer(outputBuffer \o Head(pipe), remaining)
  /\ pipe' = Tail(pipe)
  /\ UNCHANGED <<apiKey, process, running, child, exitStatus, exitEmitted, written,
                 sigterm, sigkill, killCalls, startCalls, graceTimers>>
  /\ received' = received \o Head(pipe)
  /\ UNCHANGED <<stdin, writeCalls, supRet, sigint>>

\* the child ends, by itself or by a signal it was sent
ChildExit(st) ==
  /\ child = "running"
  /\ st[2] = "SIGTERM" => sigterm > 0
  /\ st[2] = "SIGKILL" => sigkill > 0
  /\ st[2] = "SIGINT" => sigint > 0
  /\ child' = "exited"
  /\ exitStatus' = st
  /\ UNCHANGED <<apiKey, process, running, outputBuffer, remaining, exitEmitted, pipe,
                 written, emitted, sigterm, sigkill, killCalls, startCalls, graceTimers>>
  /\ UNCHANGED <<stdin, writeCalls, supRet, received, sigint>>

\* the 'exit' handler (lines 90-103)
ExitEvent ==
  /\ child = "exited"
  /\ ~exitEmitted
  /\ exitEmitted' = TRUE
  /\ running' = FALSE
  /\ emitted' = Append(emitted, Notify("exit", ExitData(exitStatus[1], exitStatus[2])))
  /\ UNCHANGED <<apiKey, process, outputBuffer, remaining, child, exitStatus, pipe,
                 written, sigterm, sigkill, killCalls, startCalls, graceTimers>>
  /\ UNCHANGED <<stdin, writeCalls, supRet, received, sigint>>

\* the 'error' handler (lines 106-119), the spawn having failed
ErrorEvent ==
  /\ child = "failed"
  /\ ~exitEmitted
  /\ exitEmitted' = TRUE
  /\ running' = FALSE
  /\ emitted' = Append(emitted, Notify("process_error", "process"))
  /\ UNCHANGED <<apiKey, process, outputBuffer, remaining, child, exitStatus, pipe,
                 written, sigterm, sigkill, killCalls, startCalls, graceTimers>>
  /\ UNCHANGED <<stdin, writeCalls, supRet, received, sigint>>

\* the texts given to write()
WriteInputs == { <<"a">>, <<"a", "\n">> }
\* number of write() calls made on the spawner
MaxWrites == 1

\* a write() that does not test the handle
WriteUnchecked(text) ==
  /\ writeCalls < MaxWrites
  /\ writeCalls' = writeCalls + 1
  /\ stdin' = Append(stdin, IF text[Len(text)] = "\n" THEN text ELSE text \o <<"\n">>)
  /\ supRet' = "returned"
  /\ UNCHANGED <<apiKey, process, running, outputBuffer, remaining, child, exitStatus,
                 exitEmitted, pipe, written, emitted, sigterm, sigkill, killCalls,
                 startCalls, graceTimers, received, sigint>>

\* write(input) (lines 147-155)
Write(text) ==
  /\ writeCalls < MaxWrites
  /\ writeCalls' = writeCalls + 1
  /\ IF ~process \/ ~running
     THEN /\ supRet' = "Process not running"
          /\ UNCHANGED stdin
     ELSE /\ stdin' = Append(stdin, IF text[Len(text)] = "\n" THEN text ELSE text \o <<"\n">>)
          /\ supRet' = "returned"
  /\ UNCHANGED <<apiKey, process, running, outputBuffer, remaining, child, exitStatus,
                 exitEmitted, pipe, written, emitted, sigterm, sigkill, killCalls,
                 startCalls, graceTimers, received, sigint>>

\* an abort() that ends the handle
abortStopping ==
  /\ IF process /\ running
     THEN /\ sigint' = sigint + 1
          /\ running' = FALSE
     ELSE UNCHANGED <<sigint, running>>
  /\ UNCHANGED <<apiKey, process, outputBuffer, remaining, child, exitStatus,
                 exitEmitted, pipe, written, emitted, sigterm, sigkill, killCalls,
                 startCalls, graceTimers, stdin, writeCalls, supRet, received>>

\* abort() (lines 160-164): SIGINT to the child of a running handle
abort ==
  /\ IF process /\ running THEN sigint' = sigint + 1 ELSE UNCHANGED sigint
  /\ UNCHANGED <<apiKey, process, running, outputBuffer, remaining, child, exitStatus,
                 exitEmitted, pipe, written, emitted, sigterm, sigkill, killCalls,
                 startCalls, graceTimers, stdin, writeCalls, supRet, received>>

\* kill() without the escalation timer
KillWithoutTimer ==
  /\ killCalls < MaxKills
  /\ killCalls' = killCalls + 1
  /\ IF process THEN sigterm' = sigterm + 1 ELSE UNCHANGED sigterm
  /\ UNCHANGED <<apiKey, process, running, outputBuffer, remaining, child, exitStatus,
                 exitEmitted, pipe, written, emitted, sigkill, startCalls, graceTimers>>
  /\ UNCHANGED <<stdin, writeCalls, supRet, received, sigint>>

\* kill() (lines 169-179): SIGTERM now, and a timer of 5 s
Kill ==
  /\ killCalls < MaxKills
  /\ killCalls' = killCalls + 1
  /\ IF process
     THEN /\ sigterm' = sigterm + 1
          /\ graceTimers' = graceTimers + 1
     ELSE UNCHANGED <<sigterm, graceTimers>>
  /\ UNCHANGED <<apiKey, process, running, outputBuffer, remaining, child, exitStatus,
                 exitEmitted, pipe, written, emitted, sigkill, startCalls>>
  /\ UNCHANGED <<stdin, writeCalls, supRet, received, sigint>>

\* the callback of kill()'s timer (lines 173-177)
GraceTimerFire ==
  /\ graceTimers > 0
  /\ graceTimers' = graceTimers - 1
  /\ sigkill' = IF process /\ running THEN sigkill + 1 ELSE sigkill
  /\ UNCHANGED <<apiKey, process, running, outputBuffer, remaining, child, exitStatus,
                 exitEmitted, pipe, written, emitted, sigterm, killCalls, startCalls>>
  /\ UNCHANGED <<stdin, writeCalls, supRet, received, sigint>>

\* a child that was sent SIGKILL ends
KilledChildExit == sigkill > 0 /\ ChildExit(<<-1, "SIGKILL">>)

----------------------------------------------------------------------------
(* Event Aggregator: src/unnamed/part_000, MessageAggregator *)
(* The arrays of a message are objects: a record that finalize() returns   *)
(* holds the arrays themselves, not copies, so the arrays live in `heap`   *)
(* and the messages hold their place in it.                                *)

\* number of addEvent calls
MaxAdds == 3
\* number of finalize() calls
MaxFinalize == 2

\* the arrays of a message after reset() (lines 277-284)
EmptyLists ==
  [tool_calls |-> <<>>, file_changes |-> <<>>, bash_commands |-> <<>>,
   errors |-> <<>>, thinking |-> <<>>]

\* the events given to addEvent
AggEvents ==
  { [event_type |-> "text", content |-> <<"a">>],
    [event_type |-> "text", content |-> <<" ">>],
    [event_type |-> "tool_call", tool_name |-> "T1", parameters |-> <<>>, status |-> "started"],
    [event_type |-> "tool_call", tool_name |-> "T2", parameters |-> <<>>, status |-> "started"],
    [event_type |-> "tool_result", result |-> "r1", success |-> TRUE],
    [event_type |-> "tool_result", result |-> "r2", success |-> FALSE],
    [event_type |-> "file_edit", file_path |-> "f", action |-> "edit"],
    [event_type |-> "diff_add", content |-> "x"],
    [event_type |-> "diff_remove", content |-> "y"],
    [event_type |-> "bash_command", command |-> "ls", status |-> "started"],
    [event_type |-> "thinking", content |-> "t"],
    [event_type |-> "error", message |-> "m", source |-> "stderr"] }

\* String.prototype.trim
RECURSIVE TrimLeft(_)
TrimLeft(s) == IF s # <<>> /\ IsSpace(Head(s)) THEN TrimLeft(Tail(s)) ELSE s
RECURSIVE TrimRight(_)
TrimRight(s) ==
  IF s # <<>> /\ IsSpace(s[Len(s)]) THEN TrimRight(SubSeq(s, 1, Len(s) - 1)) ELSE s
Trim(s) == TrimRight(TrimLeft(s))

\* the constructor (lines 271-274): reset() on a new aggregator
AggInit ==
  /\ msgContent = <<>>
  /\ msgLists = 1
  /\ heap = <<EmptyLists>>
  /\ currentTool = 0
  /\ currentFile = 0
  /\ currentBash = 0
  /\ returned = <<>>
  /\ added = <<>>

\* the arrays of the current message
Lists == heap[msgLists]
\* array.push(x) on an array of the current message
Push(field, x) == heap' = [heap EXCEPT ![msgLists][field] = Append(@, x)]

\* a reset() that keeps the arrays and the open records
resetKeepsLists ==
  /\ msgContent' = <<>>
  /\ UNCHANGED <<heap, msgLists, currentTool, currentFile, currentBash>>

\* reset() (lines 276-288): a new currentMessage with new arrays
reset ==
  /\ msgContent' = <<>>
  /\ heap' = Append(heap, EmptyLists)
  /\ msgLists' = Len(heap) + 1
  /\ currentTool' = 0
  /\ currentFile' = 0
  /\ currentBash' = 0

\* case 'tool_result' writing to the last tool record, open or not
ToolResultOverwrites(e) ==
  LET n == Len(Lists.tool_calls) IN
    IF n > 0
    THEN /\ heap' = [heap EXCEPT ![msgLists].tool_calls[n] =
                       [success |-> e.success] @@ [@ EXCEPT !.result = e.result]]
         /\ currentTool' = 0
    ELSE UNCHANGED <<heap, currentTool>>

\* case 'tool_result' (lines 311-317)
ToolResult(e) ==
  IF currentTool # 0
  THEN /\ heap' = [heap EXCEPT ![msgLists].tool_calls[currentTool] =
                     [success |-> e.success] @@ [@ EXCEPT !.result = e.result]]
       /\ currentTool' = 0
  ELSE UNCHANGED <<heap, currentTool>>

\* the number of addEvent calls made so far
RECURSIVE AddCallsIn(_)
AddCallsIn(rs) == IF rs = <<>> THEN 0 ELSE Len(Head(rs).from) + AddCallsIn(Tail(rs))
AddCalls == Len(added) + AddCallsIn(returned)

\* addEvent(e) (lines 293-361)
addEvent(e) ==
  /\ AddCalls < MaxAdds
  /\ added' = Append(added, e)
  /\ CASE e.event_type = "text" ->
            /\ msgContent' = msgContent \o e.content \o <<"\n">>
            /\ UNCHANGED <<heap, currentTool, currentFile, currentBash>>
       [] e.event_type = "tool_call" ->
            /\ Push("tool_calls", [name |-> e.tool_name, parameters |-> e.parameters,
                                   status |-> e.status, result |-> "null"])
            /\ currentTool' = Len(Lists.tool_calls) + 1
            /\ UNCHANGED <<msgContent, currentFile, currentBash>>
       [] e.event_type = "tool_result" ->
            /\ ToolResult(e)
            /\ UNCHANGED <<msgContent, currentFile, currentBash>>
       [] e.event_type = "file_edit" ->
            /\ Push("file_changes", [file_path |-> e.file_path, action |-> e.action,
                                     additions |-> <<>>, removals |-> <<>>])
            /\ currentFile' = Len(Lists.file_changes) + 1
            /\ UNCHANGED <<msgContent, currentTool, currentBash>>
       [] e.event_type = "diff_add" ->
            /\ IF currentFile # 0
               THEN heap' = [heap EXCEPT ![msgLists].file_changes[currentFile].additions =
                               Append(@, e.content)]
               ELSE UNCHANGED heap
            /\ UNCHANGED <<msgContent, currentTool, currentFile, currentBash>>
       [] e.event_type = "diff_remove" ->
            /\ IF currentFile # 0
               THEN heap' = [heap EXCEPT ![msgLists].file_changes[currentFile].removals =
                               Append(@, e.content)]
               ELSE UNCHANGED heap
            /\ UNCHANGED <<msgContent, currentTool, currentFile, currentBash>>
       [] e.event_type = "bash_command" ->
            /\ Push("bash_commands", [command |-> e.command, output |-> <<>>,
                                      exit_code |-> "null"])
            /\ currentBash' = Len(Lists.bash_commands) + 1
            /\ UNCHANGED <<msgContent, currentTool, currentFile>>
       [] e.event_type = "thinking" ->
            /\ Push("thinking", e.content)
            /\ UNCHANGED <<msgContent, currentTool, currentFile, currentBash>>
       [] e.event_type = "error" ->
            /\ Push("errors", [message |-> e.message, source |-> e.source])
            /\ UNCHANGED <<msgContent, currentTool, currentFile, currentBash>>
  /\ UNCHANGED <<msgLists, returned>>

\* finalize() (lines 366-371): a copy of currentMessage that holds the same
\* arrays, its content trimmed, then reset(); `from` remembers the events
\* the record was made of
finalize ==
  /\ Len(returned) < MaxFinalize
  /\ returned' = Append(returned, [content |-> Trim(msgContent), lists |-> msgLists,
                                   from |-> added])
  /\ reset
  /\ added' = <<>>

----------------------------------------------------------------------------
(* Connection Router: the heartbeat of one connection                      *)
(* (src/src/websocket-handler.js, lines 15-33 and 106-109)                 *)

\* number of times the interval's callback runs
MaxTicks == 6
\* number of pongs received between two runs of the callback
MaxPongs == 2

\* handleWebSocket, lines 15-33: isAlive = true, startHeartbeat()
HbInit ==
  /\ isAlive = TRUE
  /\ heartbeatTimer = TRUE
  /\ socketState = "open"
  /\ closeCode = 0
  /\ ticks = 0
  /\ pongsSince = 0
  /\ pingsSent = 0
  /\ closeCalls = 0

\* the callback of the interval never expecting an answer
HeartbeatTickForgiving ==
  /\ heartbeatTimer
  /\ ticks < MaxTicks
  /\ ticks' = ticks + 1
  /\ pongsSince' = 0
  /\ pingsSent' = pingsSent + 1
  /\ UNCHANGED <<isAlive, heartbeatTimer, socketState, closeCode, closeCalls>>

\* the callback of the interval (lines 19-26)
HeartbeatTick ==
  /\ heartbeatTimer
  /\ ticks < MaxTicks
  /\ ticks' = ticks + 1
  /\ pongsSince' = 0
  /\ IF ~isAlive
     THEN \* socket.close(4003, 'Connection timeout'); a socket that is
          \* closing or closed stays as it is
          /\ closeCalls' = closeCalls + 1
          /\ socketState' = IF socketState = "open" THEN "closing" ELSE socketState
          /\ closeCode' = IF socketState = "open" THEN 4003 ELSE closeCode
          /\ UNCHANGED <<isAlive, pingsSent>>
     ELSE /\ isAlive' = FALSE
          /\ pingsSent' = pingsSent + 1
          /\ UNCHANGED <<closeCalls, socketState, closeCode>>
  /\ UNCHANGED heartbeatTimer

\* the 'pong' handler (lines 29-31)
Pong ==
  /\ socketState # "closed"
  /\ pongsSince < MaxPongs
  /\ pongsSince' = pongsSince + 1
  /\ isAlive' = TRUE
  /\ UNCHANGED <<heartbeatTimer, socketState, closeCode, ticks, pingsSent, closeCalls>>

\* the 'close' handler (lines 106-109): the socket has closed, by the peer or
\* after socket.close(); clearInterval
SocketClosed ==
  /\ socketState # "closed"
  /\ socketState' = "closed"
  /\ heartbeatTimer' = FALSE
  /\ UNCHANGED <<isAlive, closeCode, ticks, pongsSince, pingsSent, closeCalls>>

----------------------------------------------------------------------------
(* Session Registry: the timeout of a session in time                      *)
(* (src/unnamed/part_001 lines 5, 45-48, 86-94; websocket-handler.js       *)
(* 173-178).  Time passes in ticks; a timeout that is due fires before     *)
(* the next tick.                                                          *)

\* SESSION_TIMEOUT_MS (environment, default one hour), in ticks of the clock
SESSION_TIMEOUT_MS == 2
\* number of message intents handled
MaxMessages == 3

TmInit ==
  /\ left = [i \in Ids |-> 0]
  /\ since = [i \in Ids |-> 0]
  /\ msgs = 0

\* a message intent that leaves a timeout that is set as it is
setTimeoutKept(id) ==
  /\ left' = left
  /\ since' = [since EXCEPT ![id] = 0]

\* setTimeout(..., SESSION_TIMEOUT_MS) for session id (lines 46-48, 90-92)
setTimeout(id) ==
  /\ left' = [left EXCEPT ![id] = SESSION_TIMEOUT_MS]
  /\ since' = [since EXCEPT ![id] = 0]

\* a message intent, at some time (handleUserMessage up to its first await)
TimedMessage(c, msid) ==
  /\ msgs < MaxMessages
  /\ msgs' = msgs + 1
  /\ IntentMessage(c, msid)
  /\ IF op'.name = "resetTimeout" THEN setTimeout(op'.sid) ELSE UNCHANGED <<left, since>>

\* createSession resolved, at some time: startSession sets the timeout
TimedCreated(t) ==
  /\ MessageCreated(t)
  /\ setTimeout(nextId)
  /\ UNCHANGED msgs

\* the timeout of session id is due: its callback runs
TimeoutDue(id) ==
  /\ left[id] = 0
  /\ TimerFire(id)
  /\ UNCHANGED tmVars

\* one tick of time passes, no timeout being due
Tick ==
  /\ \A i \in Ids : timer[i] => left[i] > 0
  /\ \E i \in Ids : timer[i] \/ since[i] < SESSION_TIMEOUT_MS
  /\ left' = [i \in Ids |-> IF timer[i] THEN left[i] - 1 ELSE left[i]]
  /\ since' = [i \in Ids |-> IF since[i] < SESSION_TIMEOUT_MS THEN since[i] + 1 ELSE since[i]]
  /\ UNCHANGED <<regVars, msgs>>

----------------------------------------------------------------------------
(* Connection Router with the Supervisor and the Aggregator of a session   *)
(* (src/src/websocket-handler.js, handleUserMessage 120-200,               *)
(* setupSpawnerListeners 205-239, handleAbort 244-252).  The model follows *)
(* connection c1 and the first session it creates; the spawner, its child  *)
(* and the aggregator of the model are those of that session.              *)

\* number of abort intents handled
MaxAborts == 1
\* the connection and the session the model follows
RouteConn == "c1"
RouteSession == Min(Ids)
\* message.content of the message intents
Content == <<"a">>

RtInit ==
  /\ listening = FALSE
  /\ sockSent = <<>>
  /\ inserted = <<>>
  /\ aborts = 0

\* a notification sent on the socket
Sent(type, id) == [type |-> type, session_id |-> id]
\* a message given to insertMessage: the events it was made of in `from`
Message(id, role, content, from) ==
  [session_id |-> id, role |-> role, content |-> content, from |-> from]

\* the notifications emitted in the step
NewNotes == SubSeq(emitted', Len(emitted) + 1, Len(emitted'))

\* the 'exit' listener persisting whatever finalize() returns
ExitListenerAlways ==
  /\ inserted' = Append(inserted, Message(RouteSession, "assistant", Trim(msgContent), added))
  /\ finalize

\* the 'exit' listener after socket.send (lines 224-233): finalize(), and
\* insertMessage when the record has content or tool calls
ExitListener ==
  /\ inserted' =
       IF Trim(msgContent) # <<>> \/ Len(Lists.tool_calls) > 0
       THEN Append(inserted, Message(RouteSession, "assistant", Trim(msgContent), added))
       ELSE inserted
  /\ finalize

\* the listeners of setupSpawnerListeners (lines 208-238) run by the emit
\* calls of the step, if they are attached; every chunk of Chunks holds at
\* most one line feed, so a step emits at most one notification
Listeners ==
  IF ~listening \/ NewNotes = <<>>
  THEN UNCHANGED <<sockSent, inserted, aggVars>>
  ELSE /\ Len(NewNotes) = 1
       /\ sockSent' = Append(sockSent, Sent(NewNotes[1].kind, RouteSession))
       /\ CASE NewNotes[1].kind = "output" ->
                 addEvent(NewNotes[1].data) /\ UNCHANGED inserted
            [] NewNotes[1].kind = "exit" -> ExitListener
            [] OTHER -> UNCHANGED <<inserted, aggVars>>

\* handleUserMessage up to its first await (lines 120-178), for a message
\* intent that is written to the spawner of the session the model follows
RouteMessage(msid) ==
  /\ writeCalls + InFlight < MaxWrites
  /\ LET sessionId == IF currentSessionId[RouteConn] # NoId
                      THEN currentSessionId[RouteConn] ELSE msid
     IN  (sessionId = NoId \/ ~hasSession(sessionId))
           => (nextId = RouteSession /\ PendingCreates = 0)
  /\ IntentMessage(RouteConn, msid)
  /\ UNCHANGED <<supVars, remaining, aggVars, rtVars>>

\* createSession resolved: startSession 40-66, then handleUserMessage
\* 147-181: setSessionId, session_started, spawner.start(), then the
\* listeners are attached, and insertMessage is issued
RouteCreated(t, spawned) ==
  /\ t.pc = "createSession"
  /\ nextId = RouteSession
  /\ nextId' = nextId + 1
  /\ dbStatus' = [dbStatus EXCEPT ![RouteSession] = "active"]
  /\ Register(RouteSession, t.conn, t.user)
  /\ currentSessionId' = [currentSessionId EXCEPT ![t.conn] = RouteSession]
  /\ Start(spawned)
  /\ isRunning' = [isRunning EXCEPT ![RouteSession] = running']
  /\ listening' = TRUE
  /\ sockSent' = Append(sockSent, Sent("session_started", RouteSession))
  /\ tasks' = Resume(t, Task("message", "insertMessage", t.conn, RouteSession, t.user,
                             None, {}))
  /\ op' = Op("startSession.return", t.conn, RouteSession, "ok")
  /\ endReturned' = NoReturn
  /\ UNCHANGED <<kills, endNotes, updates, readyState, disconnectDone, lastFrame,
                 frameSent, inserted, aborts, aggVars>>

\* a handler that writes whether or not the insert succeeded
RouteInsertFailedWrites(t) ==
  /\ t.pc = "insertMessage"
  /\ tasks' = Finish(t)
  /\ Write(Content)
  /\ op' = Op("insertMessage", t.conn, t.sid, "rejected")
  /\ endReturned' = NoReturn
  /\ UNCHANGED <<activeSessions, userSessions, timer, isRunning, kills, endNotes,
                 updates, dbStatus, nextId, readyState, currentSessionId,
                 disconnectDone, lastFrame, frameSent>>
  /\ UNCHANGED <<aggVars, rtVars>>

\* a handler that swallows the exception of write()
RouteInsertedSilent(t) ==
  /\ t.pc = "insertMessage"
  /\ tasks' = Finish(t)
  /\ inserted' = Append(inserted, Message(t.sid, "user", Content, <<>>))
  /\ Write(Content)
  /\ sockSent' = Append(sockSent, Sent("message_received", t.sid))
  /\ op' = Op("write", t.conn, t.sid, supRet')
  /\ endReturned' = NoReturn
  /\ UNCHANGED <<activeSessions, userSessions, timer, isRunning, kills, endNotes,
                 updates, dbStatus, nextId, readyState, currentSessionId,
                 disconnectDone, lastFrame, frameSent>>
  /\ UNCHANGED <<listening, aborts, aggVars>>

\* insertMessage of the user message resolved (lines 181-199):
\* message_received, spawner.write, and the error notification if it throws
RouteInserted(t) ==
  /\ t.pc = "insertMessage"
  /\ tasks' = Finish(t)
  /\ inserted' = Append(inserted, Message(t.sid, "user", Content, <<>>))
  /\ Write(Content)
  /\ sockSent' = sockSent \o <<Sent("message_received", t.sid)>>
                   \o (IF supRet' = "returned" THEN <<>> ELSE <<Sent("error", t.sid)>>)
  /\ op' = Op("write", t.conn, t.sid, supRet')
  /\ endReturned' = NoReturn
  /\ UNCHANGED <<activeSessions, userSessions, timer, isRunning, kills, endNotes,
                 updates, dbStatus, nextId, readyState, currentSessionId,
                 disconnectDone, lastFrame, frameSent>>
  /\ UNCHANGED <<listening, aborts, aggVars>>

\* insertMessage of the user message rejected (line 181): the handler throws
RouteInsertFailed(t) ==
  /\ t.pc = "insertMessage"
  /\ tasks' = Finish(t)
  /\ op' = Op("insertMessage", t.conn, t.sid, "rejected")
  /\ endReturned' = NoReturn
  /\ UNCHANGED <<activeSessions, userSessions, timer, isRunning, kills, endNotes,
                 updates, dbStatus, nextId, readyState, currentSessionId,
                 disconnectDone, lastFrame, frameSent>>
  /\ UNCHANGED <<supVars, remaining, aggVars, rtVars>>

\* an abort intent (line 70, handleAbort 244-252); msid is message.session_id
RouteAbort(msid) ==
  /\ aborts < MaxAborts
  /\ aborts' = aborts + 1
  /\ LET sessionId == IF msid # NoId THEN msid ELSE currentSessionId[RouteConn]
     IN  IF sessionId # NoId /\ hasSession(sessionId)
         THEN /\ abort
              /\ op' = Op("abort", RouteConn, sessionId, "called")
         ELSE /\ UNCHANGED <<supVars, remaining>>
              /\ op' = Op("abort", RouteConn, sessionId, "noop")
  /\ endReturned' = NoReturn
  /\ UNCHANGED <<activeSessions, userSessions, timer, isRunning, kills, endNotes,
                 updates, dbStatus, nextId, readyState, currentSessionId,
                 disconnectDone, tasks, lastFrame, frameSent>>
  /\ UNCHANGED <<listening, sockSent, inserted, aggVars>>

\* start() called once more on the handle of the session
RouteStartAgain(spawned) ==
  /\ process
  /\ Start(spawned)
  /\ Listeners
  /\ UNCHANGED <<regVars, listening, aborts>>

\* the events of the child and of the ChildProcess object, the listeners
\* of the Router attached or not
RouteChild ==
  \/ \E chunk \in Chunks : ChildWrite(chunk) /\ Listeners
  \/ StdoutData /\ Listeners
  \/ \E st \in ExitStatuses : ChildExit(st) /\ Listeners
  \/ ExitEvent /\ Listeners
  \/ ErrorEvent /\ Listeners

\* the socket of the connection closes: the 'close' handler (lines 106-109),
\* handleSocketDisconnect and its endSession up to the await, whose kill()
\* (part_001 line 108) is made on the spawner of the session; the listeners
\* of setupSpawnerListeners stay attached
RouteClose ==
  /\ Close(RouteConn)
  /\ IF \E i \in DOMAIN activeSessions : activeSessions[i].socket = RouteConn
     THEN Kill
     ELSE UNCHANGED <<supVars, remaining>>
  /\ UNCHANGED <<aggVars, rtVars>>

\* updateSessionStatus resolved: the session is removed from the Registry
RouteEnded(t) ==
  /\ EndSessionDone(t)
  /\ UNCHANGED <<supVars, remaining, aggVars, rtVars>>

----------------------------------------------------------------------------
(* Specifications *)

ParIdle ==
  /\ input = <<>>
  /\ fed = 0
  /\ remaining = NoRemaining
  /\ events = <<>>

\* the Registry and the Router, two connections of one user
Next ==
  \/ \E c \in Conns : \E msid \in Ids \cup {NoId} :
       IntentMessage(c, msid) /\ UNCHANGED notReg
  \/ \E t \in BagToSet(tasks) : MessageCreated(t) /\ UNCHANGED notReg
  \/ \E t \in BagToSet(tasks) : MessageInserted(t) /\ UNCHANGED notReg
  \/ \E c \in Conns : \E kind \in {"end_session", "new_session"} :
       IntentEnd(c, kind) /\ UNCHANGED notReg
  \/ \E id \in Ids : TimerFire(id) /\ UNCHANGED notReg
  \/ \E c \in Conns : Close(c) /\ UNCHANGED notReg
  \/ \E t \in BagToSet(tasks) : EndSessionDone(t) /\ UNCHANGED notReg

\* both connections authenticated as the same user
OneOwner == owner = [c \in Conns |-> "u1"]

\* every component after its construction
Init == RegInit /\ ParIdle /\ SupIdle /\ AggInit /\ HbInit /\ TmInit /\ RtInit /\ OneOwner

\* the Router with one connection sending intents and both connections
\* sending frames that the handler rejects
FramesNext ==
  \/ \E msid \in Ids \cup {NoId} : IntentMessage("c1", msid) /\ UNCHANGED notReg
  \/ \E t \in BagToSet(tasks) : MessageCreated(t) /\ UNCHANGED notReg
  \/ \E t \in BagToSet(tasks) : MessageInserted(t) /\ UNCHANGED notReg
  \/ \E kind \in {"end_session", "new_session"} : IntentEnd("c1", kind) /\ UNCHANGED notReg
  \/ \E t \in BagToSet(tasks) : EndSessionDone(t) /\ UNCHANGED notReg
  \/ Close("c2") /\ UNCHANGED notReg
  \/ \E c \in Conns : \E f \in BadFrames : HandleBadFrame(c, f) /\ UNCHANGED notReg

SpecFrames == Init /\ [][FramesNext]_vars

\* the Registry with connection c1 creating sessions and endSession called
\* with every reason
EndNext ==
  \/ \E msid \in Ids \cup {NoId} : IntentMessage("c1", msid) /\ UNCHANGED notReg
  \/ \E t \in BagToSet(tasks) : MessageCreated(t) /\ UNCHANGED notReg
  \/ \E t \in BagToSet(tasks) : MessageInserted(t) /\ UNCHANGED notReg
  \/ \E id \in Ids : \E reason \in EndReasons : EndSession(id, reason) /\ UNCHANGED notReg
  \/ \E t \in BagToSet(tasks) : EndSessionDone(t) /\ UNCHANGED notReg

SpecEnd == Init /\ [][EndNext]_vars

\* connection c1 sending message intents in turn, end_session and
\* new_session intents at any time, and the timers
TurnNext ==
  \/ \E msid \in Ids \cup {NoId} : MessageInTurn("c1", msid) /\ UNCHANGED notReg
  \/ \E t \in BagToSet(tasks) : MessageCreated(t) /\ UNCHANGED notReg
  \/ \E t \in BagToSet(tasks) : MessageInserted(t) /\ UNCHANGED notReg
  \/ \E kind \in {"end_session", "new_session"} : IntentEnd("c1", kind) /\ UNCHANGED notReg
  \/ \E id \in Ids : TimerFire(id) /\ UNCHANGED notReg
  \/ \E t \in BagToSet(tasks) : EndSessionDone(t) /\ UNCHANGED notReg

SpecTurn == Init /\ [][TurnNext]_vars

\* connection c1 sending message intents, the timeouts, and time
TimerNext ==
  \/ \E msid \in Ids \cup {NoId} : TimedMessage("c1", msid) /\ UNCHANGED notTm
  \/ \E t \in BagToSet(tasks) : TimedCreated(t) /\ UNCHANGED notTm
  \/ \E t \in BagToSet(tasks) : MessageInserted(t) /\ UNCHANGED notReg
  \/ \E id \in Ids : TimeoutDue(id) /\ UNCHANGED notTm
  \/ \E t \in BagToSet(tasks) : EndSessionDone(t) /\ UNCHANGED notReg
  \/ Tick /\ UNCHANGED notTm

\* timeouts that are due fire, time passes, and the persistence calls complete
TimerFairness ==
  /\ WF_vars(\E id \in Ids : TimeoutDue(id) /\ UNCHANGED notTm)
  /\ WF_vars(Tick /\ UNCHANGED notTm)
  /\ WF_vars(\E t \in BagToSet(tasks) : TimedCreated(t) /\ UNCHANGED notTm)
  /\ WF_vars(\E t \in BagToSet(tasks) : MessageInserted(t) /\ UNCHANGED notReg)
  /\ WF_vars(\E t \in BagToSet(tasks) : EndSessionDone(t) /\ UNCHANGED notReg)

SpecTimer == Init /\ [][TimerNext]_vars /\ TimerFairness

Spec == Init /\ [][Next]_vars

\* the two connections authenticated as two users
TwoOwners == owner = [c \in Conns |-> IF c = "c1" THEN "u1" ELSE "u2"]

InitOwners == RegInit /\ ParIdle /\ SupIdle /\ AggInit /\ HbInit /\ TmInit /\ RtInit /\ TwoOwners

\* the Registry and the Router with two users sending message, abort,
\* end_session and new_session intents with any session id
OwnersNext ==
  \/ \E c \in Conns : \E msid \in Ids \cup {NoId} :
       IntentMessage(c, msid) /\ UNCHANGED notReg
  \/ \E t \in BagToSet(tasks) : MessageCreated(t) /\ UNCHANGED notReg
  \/ \E t \in BagToSet(tasks) : MessageInserted(t) /\ UNCHANGED notReg
  \/ \E c \in Conns : \E msid \in Ids \cup {NoId} :
       IntentAbort(c, msid) /\ UNCHANGED notReg
  \/ \E c \in Conns : \E kind \in {"end_session", "new_session"} :
       IntentEnd(c, kind) /\ UNCHANGED notReg
  \/ \E t \in BagToSet(tasks) : EndSessionDone(t) /\ UNCHANGED notReg

SpecOwners == InitOwners /\ [][OwnersNext]_vars

\* the Registry with two users and every trigger of endSession: the
\* end_session and new_session intents, the timers, the closes and the
\* shutdown; the message intents carry no session id
ShutdownNext ==
  \/ \E c \in Conns : IntentMessage(c, NoId) /\ UNCHANGED notReg
  \/ \E t \in BagToSet(tasks) : MessageCreated(t) /\ UNCHANGED notReg
  \/ \E t \in BagToSet(tasks) : MessageInserted(t) /\ UNCHANGED notReg
  \/ \E c \in Conns : \E kind \in {"end_session", "new_session"} :
       IntentEnd(c, kind) /\ UNCHANGED notReg
  \/ \E id \in Ids : TimerFire(id) /\ UNCHANGED notReg
  \/ \E c \in Conns : Close(c) /\ UNCHANGED notReg
  \/ Cleanup /\ UNCHANGED notReg
  \/ \E t \in BagToSet(tasks) : EndSessionDone(t) /\ UNCHANGED notReg

SpecShutdown == InitOwners /\ [][ShutdownNext]_vars

\* one OutputParser given a text in chunks
ParNext == \E k \in 1..MaxLen : ParseChunk(k) /\ UNCHANGED notPar

InitParser == RegInit /\ ParInit /\ SupIdle /\ AggInit /\ HbInit /\ TmInit /\ RtInit /\ OneOwner

SpecParser == InitParser /\ [][ParNext]_vars

\* one OutputParser given lines
LinesNext ==
  \/ \E l \in SampleLines : FeedLine(l) /\ UNCHANGED notPar
  \/ \E l \in PartLines : FeedPart(l) /\ UNCHANGED notPar
  \/ FeedScenario /\ UNCHANGED notPar

SpecLines == Init /\ [][LinesNext]_vars

\* one ClaudeProcessSpawner and its child
SupNext ==
  \/ \E spawned \in BOOLEAN : Start(spawned) /\ UNCHANGED notSup
  \/ \E chunk \in Chunks : ChildWrite(chunk) /\ UNCHANGED notSup
  \/ StdoutData /\ UNCHANGED notSup
  \/ \E st \in ExitStatuses : ChildExit(st) /\ UNCHANGED notSup
  \/ ExitEvent /\ UNCHANGED notSup
  \/ ErrorEvent /\ UNCHANGED notSup
  \/ Kill /\ UNCHANGED notSup
  \/ \E text \in WriteInputs : Write(text) /\ UNCHANGED notSup
  \/ GraceTimerFire /\ UNCHANGED notSup

InitSup == RegInit /\ ParIdle /\ SupInit /\ AggInit /\ HbInit /\ TmInit /\ RtInit /\ OneOwner

SpecSup == InitSup /\ [][SupNext]_vars

\* connection c1, its first session, and the spawner and child of that session
RouteNext ==
  \/ \E msid \in Ids \cup {NoId} : RouteMessage(msid) /\ UNCHANGED notRt
  \/ \E t \in BagToSet(tasks) : \E spawned \in BOOLEAN :
       RouteCreated(t, spawned) /\ UNCHANGED notRt
  \/ \E t \in BagToSet(tasks) : RouteInserted(t) /\ UNCHANGED notRt
  \/ \E t \in BagToSet(tasks) : RouteInsertFailed(t) /\ UNCHANGED notRt
  \/ \E msid \in Ids \cup {NoId} : RouteAbort(msid) /\ UNCHANGED notRt
  \/ \E spawned \in BOOLEAN : RouteStartAgain(spawned) /\ UNCHANGED notRt
  \/ RouteChild /\ UNCHANGED <<regVars, listening, aborts>> /\ UNCHANGED notRt

SpecRoute == InitSup /\ [][RouteNext]_vars

\* connection c1 and its session with the spawner and child, the socket
\* closing at any time
ClosedNext ==
  \/ RouteMessage(NoId) /\ UNCHANGED notRt
  \/ \E t \in BagToSet(tasks) : \E spawned \in BOOLEAN :
       RouteCreated(t, spawned) /\ UNCHANGED notRt
  \/ \E t \in BagToSet(tasks) : RouteInserted(t) /\ UNCHANGED notRt
  \/ RouteClose /\ UNCHANGED notRt
  \/ \E t \in BagToSet(tasks) : RouteEnded(t) /\ UNCHANGED notRt
  \/ RouteChild /\ UNCHANGED <<regVars, listening, aborts>> /\ UNCHANGED notRt

SpecClosed == InitSup /\ [][ClosedNext]_vars

\* one MessageAggregator
AggNext ==
  \/ \E e \in AggEvents : addEvent(e) /\ UNCHANGED notAgg
  \/ finalize /\ UNCHANGED notAgg

SpecAgg == Init /\ [][AggNext]_vars

\* the heartbeat of one connection
HbNext ==
  \/ HeartbeatTick /\ UNCHANGED notHb
  \/ Pong /\ UNCHANGED notHb
  \/ SocketClosed /\ UNCHANGED notHb

SpecHb == Init /\ [][HbNext]_vars

\* timers fire, events queued on the event loop are delivered, and a child
\* that was sent SIGKILL ends
SupFairness ==
  /\ WF_vars(GraceTimerFire /\ UNCHANGED notSup)
  /\ WF_vars(ExitEvent /\ UNCHANGED notSup)
  /\ WF_vars(KilledChildExit /\ UNCHANGED notSup)

SpecSupFair == InitSup /\ [][SupNext]_vars /\ SupFairness

----------------------------------------------------------------------------
(* Claims on the Session Registry and the Connection Router (Spec) *)

\* the sessions registered under user u
SessionsOf(u) == {i \in DOMAIN activeSessions : activeSessions[i].userId = u}
\* the handlers of connection c's intents that are suspended on an await
IntentTasks(c) ==
  [t \in {x \in BagToSet(tasks) :
            x.conn = c /\ x.kind \in {"message", "end_session", "new_session"}}
     |-> tasks[t]]

\* C1: in every reachable state, no user has more registered sessions than
\* MAX_SESSIONS_PER_USER, whatever the interleaving of the calls.
C1_SessionLimit ==
  \A u \in Users : Cardinality(SessionsOf(u)) <= MAX_SESSIONS_PER_USER

\* C2: for each session the teardown happens once: kill(), the session_end
\* notification and the status update are each performed at most once.
C2_TeardownOnce ==
  \A id \in Ids : kills[id] <= 1 /\ endNotes[id] <= 1 /\ updates[id] <= 1

\* C3: endSession on an id that is not registered (already ended and removed,
\* or never registered) kills nothing, notifies nobody, updates no status,
\* changes neither index and returns undefined.
C3_EndSessionIdempotent ==
  [][ (op'.name = "endSession" /\ ~hasSession(op'.sid))
        => /\ op'.ret = "undefined"
           /\ UNCHANGED <<kills, endNotes, updates, dbStatus, activeSessions,
                          userSessions>> ]_vars

\* an endSession call was made on a session that had been ended and removed
C3_Witness ==
  /\ op.name = "endSession"
  /\ op.ret = "undefined"
  /\ op.sid \in Ids
  /\ dbStatus[op.sid] = "completed"
  /\ ~hasSession(op.sid)

\* C4: a startSession call made while the user has the maximum number of
\* registered sessions throws the capacity error and changes nothing; a call
\* made while the user has fewer passes the check, and when it returns the
\* session is registered under the user, whose count is one higher: so after
\* an endSession has completed, one further startSession succeeds, and the
\* one after it fails again.
C4_Capacity ==
  [][ /\ (op'.name = "startSession"
            /\ getActiveSessionCount(UserOf(op'.conn)) >= MAX_SESSIONS_PER_USER)
          => /\ op'.ret = "CapacityError"
             /\ UNCHANGED <<activeSessions, userSessions, timer, isRunning, kills,
                            endNotes, updates, dbStatus, nextId, currentSessionId,
                            tasks>>
      /\ (op'.name = "startSession"
            /\ getActiveSessionCount(UserOf(op'.conn)) < MAX_SESSIONS_PER_USER)
          => /\ op'.ret = "pending"
             /\ BagCardinality(tasks') = BagCardinality(tasks) + 1
      /\ (op'.name = "startSession.return")
          => /\ op'.ret = "ok"
             /\ ~hasSession(op'.sid)
             /\ \E u \in Users :
                  /\ u = UserOf(op'.conn)
                  /\ op'.sid \in SessionsOf(u)'
                  /\ getActiveSessionCount(u)' = getActiveSessionCount(u) + 1 ]_vars

\* a session was ended, the user is at the maximum again, and a startSession
\* was refused
C4_Witness ==
  /\ op.name = "startSession"
  /\ op.ret = "CapacityError"
  /\ getActiveSessionCount(UserOf(op.conn)) = MAX_SESSIONS_PER_USER
  /\ \E i \in Ids : dbStatus[i] = "completed" /\ ~hasSession(i)
  /\ C1_SessionLimit
  /\ tasks = EmptyBag

\* C5: a timeout timer is armed for an id exactly while its session is
\* active (registered, and no endSession has begun to tear it down).
C5_TimerIffActive ==
  \A id \in Ids : timer[id] <=> (hasSession(id) /\ kills[id] = 0)

\* C8: a connection handles its intents in arrival order: the handler of an
\* intent does not act while the handler of an earlier intent of that
\* connection is suspended (every suspended handler has issued a
\* persistence call).
C8_IntentsInOrder ==
  \A c \in Conns : BagCardinality(IntentTasks(c)) <= 1

\* C9: once a connection is closed and its handleSocketDisconnect has
\* returned, no registered session is bound to its socket.
C9_NoSessionAfterDisconnect ==
  \A c \in Conns :
    disconnectDone[c] => \A i \in DOMAIN activeSessions : activeSessions[i].socket # c
----------------------------------------------------------------------------
(* Claims on the Output Translator (SpecParser) *)

\* C6: whatever the chunks a text is given in, the events returned by the
\* parse() calls, concatenated, and the remainder kept are those of one
\* parse() call on the whole of the text given so far.
C6_ChunkInvariance ==
  LET whole == parse(NoRemaining, SubSeq(input, 1, fed))
  IN  events = whole.events /\ remaining = whole.remaining

\* a chunk ended in the middle of a line, after earlier lines gave events
C6_Witness ==
  /\ remaining # <<>>
  /\ events # <<>>
  /\ fed < Len(input)
  /\ input[fed + 1] # "\n"

----------------------------------------------------------------------------
(* Claims on the Process Supervisor (SpecSup, SpecSupFair) *)

\* C7: the spawner emits one exit notification per child, and no output
\* notification after it.
C7_ExitIsLast ==
  /\ Cardinality({i \in 1..Len(emitted) : emitted[i].kind = "exit"}) <= 1
  /\ \A i, j \in 1..Len(emitted) :
       (i < j /\ emitted[i].kind = "exit") => emitted[j].kind # "output"

\* C10: kill() on a handle whose child is running sends SIGTERM at once and
\* sets the timer without waiting for the exit; the timer's callback sends
\* SIGKILL if the handle is still running, and SIGKILL is sent by nothing
\* else; and a running child with such a timer set leads to a non-running
\* handle (timers fire, queued events are delivered, a child that was sent
\* SIGKILL ends).
C10_KillTerminates ==
  /\ [][ (killCalls' = killCalls + 1 /\ child = "running")
           => /\ sigterm' = sigterm + 1
              /\ graceTimers' = graceTimers + 1
              /\ UNCHANGED <<running, child, sigkill>> ]_vars
  /\ [][ (graceTimers' = graceTimers - 1)
           => sigkill' = IF running THEN sigkill + 1 ELSE sigkill ]_vars
  /\ [][ sigkill' # sigkill => graceTimers' = graceTimers - 1 ]_vars
  /\ (graceTimers > 0 /\ child = "running") ~> ~running

\* a child that did not end on SIGTERM was sent SIGKILL by the timer, ended
\* by it, and the handle is non-running
C10_Witness ==
  /\ killCalls > 0
  /\ sigterm > 0
  /\ sigkill > 0
  /\ exitStatus = <<-1, "SIGKILL">>
  /\ exitEmitted
  /\ ~running

----------------------------------------------------------------------------
(* Claims on the Output Translator given lines (SpecLines) *)

\* the lines of text that a line feed ends
CompleteLines(text) == LET ls == SplitLines(text) IN SubSeq(ls, 1, Len(ls) - 1)
\* the first rule of RuleOrder whose condition holds of line
FirstRule(line) ==
  RuleOrder[CHOOSE i \in 1..Len(RuleOrder) :
              /\ RuleMatches(RuleOrder[i], line)
              /\ \A j \in 1..(i - 1) : ~RuleMatches(RuleOrder[j], line)]
\* the rules of the lines that are not suppressed, in order
EmittingRules(lines) ==
  SelectSeq([i \in 1..Len(lines) |-> FirstRule(lines[i])], LAMBDA r : r # "suppressed")

\* C11: the events returned so far are, line by line and in order, the event of
\* the first rule in the precedence order that matches the line, the
\* suppressed lines giving none: at most one event for each line ended by a
\* line feed, and none for the text after the last line feed, which is kept.
C11_FirstMatchWins ==
  LET lines == CompleteLines(input)
      rules == EmittingRules(lines)
  IN  /\ Len(events) = Len(rules)
      /\ \A i \in 1..Len(events) : RuleOf(events[i]) = rules[i]
      /\ Len(events) <= Len(lines)
      /\ remaining = SplitLines(input)[Len(SplitLines(input))]

\* a line that several rules match was printed and gave the event of the first,
\* and the beginning of a line is held back without event
C11_Witness ==
  /\ Len(input) > 0 /\ input[Len(input)] # "\n"
  /\ remaining # <<>>
  /\ Len(events) = 1
  /\ events[1].event_type = "diff_add"
  /\ CostMatch(CompleteLines(input)[1])

\* C12: lines that are blank, made of rule characters only, or runs of '-' or
\* of '=' of any length give no event.
C12_RunsSuppressed ==
  (\A i \in 1..Len(CompleteLines(input)) :
      LET l == CompleteLines(input)[i] IN IsBlank(l) \/ IsRule(l) \/ IsDashRun(l))
    => events = <<>>

\* C13: the five lines of the scenario, given in one chunk, yield
\* bash_command 'ls -la', tool_result success 'done', text 'Hello world',
\* diff_add 'added' and diff_remove 'removed', in this order.
C13_Scenario ==
  input = ScenarioChunk =>
    events = << [event_type |-> "bash_command", command |-> <<"l", "s", " ", "-", "l", "a">>,
                 status |-> "started"],
                [event_type |-> "tool_result", result |-> <<"d", "o", "n", "e">>,
                 success |-> TRUE],
                [event_type |-> "text",
                 content |-> <<"H", "e", "l", "l", "o", " ", "w", "o", "r", "l", "d">>],
                [event_type |-> "diff_add", content |-> <<"a", "d", "d", "e", "d">>],
                [event_type |-> "diff_remove",
                 content |-> <<"r", "e", "m", "o", "v", "e", "d">>] >>

----------------------------------------------------------------------------
(* Claims on the Event Aggregator (SpecAgg) *)

\* the events of evs whose type is ty
OfType(evs, ty) == SelectSeq(evs, LAMBDA e : e.event_type = ty)
\* the content of the text events of evs, a line feed after each
RECURSIVE TextOf(_)
TextOf(evs) ==
  IF evs = <<>> THEN <<>>
  ELSE (IF Head(evs).event_type = "text" THEN Head(evs).content \o <<"\n">> ELSE <<>>)
         \o TextOf(Tail(evs))

\* C14: a record finalize() returned holds the trimmed text and the lists of
\* the events added before it, and nothing of them when none was added (a
\* second finalize() at once); finalize() leaves the aggregator at the empty
\* baseline with no open tool, file or bash record; and no later step changes
\* a record returned earlier.
C14_FinalizeResets ==
  /\ [](\A i \in 1..Len(returned) :
          LET r == returned[i]
              l == heap[r.lists]
          IN  /\ r.content = Trim(TextOf(r.from))
              /\ Len(l.tool_calls) = Len(OfType(r.from, "tool_call"))
              /\ Len(l.file_changes) = Len(OfType(r.from, "file_edit"))
              /\ Len(l.bash_commands) = Len(OfType(r.from, "bash_command"))
              /\ Len(l.errors) = Len(OfType(r.from, "error"))
              /\ Len(l.thinking) = Len(OfType(r.from, "thinking"))
              /\ r.from = <<>> => (r.content = <<>> /\ l = EmptyLists))
  /\ [][ Len(returned') = Len(returned) + 1
           => /\ msgContent' = <<>>
              /\ heap'[msgLists'] = EmptyLists
              /\ currentTool' = 0 /\ currentFile' = 0 /\ currentBash' = 0 ]_vars
  /\ [][ \A i \in 1..Len(returned) :
           returned'[i] = returned[i] /\ heap'[returned[i].lists] = heap[returned[i].lists]
       ]_vars

\* a record made of a text and a tool call was returned, a second finalize()
\* followed at once, and an event was added after both
C14_Witness ==
  /\ Len(returned) = 2
  /\ returned[1].content = <<"a">>
  /\ Len(heap[returned[1].lists].tool_calls) = 1
  /\ returned[2].from = <<>>
  /\ added # <<>>

\* the tool records that the events evs make, acc being those made so far
\* and open telling whether the last of them still waits for its result
RECURSIVE FoldTools(_, _, _)
FoldTools(evs, acc, open) ==
  IF evs = <<>> THEN acc
  ELSE LET e == Head(evs) IN
    IF e.event_type = "tool_call"
    THEN FoldTools(Tail(evs),
                   Append(acc, [name |-> e.tool_name, parameters |-> e.parameters,
                                status |-> e.status, result |-> "null"]), TRUE)
    ELSE IF e.event_type = "tool_result" /\ open
    THEN FoldTools(Tail(evs),
                   [acc EXCEPT ![Len(acc)] =
                      [name |-> @.name, parameters |-> @.parameters, status |-> @.status,
                       result |-> e.result, success |-> e.success]], FALSE)
    ELSE FoldTools(Tail(evs), acc, open)
\* the file records that the events evs make
RECURSIVE FoldFiles(_, _)
FoldFiles(evs, acc) ==
  IF evs = <<>> THEN acc
  ELSE LET e == Head(evs) IN
    IF e.event_type = "file_edit"
    THEN FoldFiles(Tail(evs), Append(acc, [file_path |-> e.file_path, action |-> e.action,
                                           additions |-> <<>>, removals |-> <<>>]))
    ELSE IF e.event_type = "diff_add" /\ acc # <<>>
    THEN FoldFiles(Tail(evs), [acc EXCEPT ![Len(acc)].additions = Append(@, e.content)])
    ELSE IF e.event_type = "diff_remove" /\ acc # <<>>
    THEN FoldFiles(Tail(evs), [acc EXCEPT ![Len(acc)].removals = Append(@, e.content)])
    ELSE FoldFiles(Tail(evs), acc)
\* the step is an addEvent call with an event of type ty
Adds(ty) == Len(added') = Len(added) + 1 /\ added'[Len(added')].event_type = ty

\* C15: the tool list of a message, finalized or current, has one record for
\* each tool_call event, in the order of arrival, and a tool_result is
\* written to the last record if that record is still open, which closes it;
\* a tool_result with no open record, and a diff_add or diff_remove with no
\* file record opened, changes nothing.
C15_ToolResultsAttach ==
  /\ [](/\ \A i \in 1..Len(returned) :
             /\ heap[returned[i].lists].tool_calls = FoldTools(returned[i].from, <<>>, FALSE)
             /\ heap[returned[i].lists].file_changes = FoldFiles(returned[i].from, <<>>)
        /\ Lists.tool_calls = FoldTools(added, <<>>, FALSE)
        /\ Lists.file_changes = FoldFiles(added, <<>>)
        /\ currentTool \in {0, Len(Lists.tool_calls)})
  /\ [][ (Adds("tool_result") /\ currentTool = 0)
           => UNCHANGED <<msgContent, msgLists, heap, currentTool, currentFile,
                          currentBash, returned>> ]_vars
  /\ [][ (Adds("tool_result") /\ currentTool # 0) => currentTool' = 0 ]_vars
  /\ [][ ((Adds("diff_add") \/ Adds("diff_remove")) /\ currentFile = 0)
           => UNCHANGED <<msgContent, msgLists, heap, currentTool, currentFile,
                          currentBash, returned>> ]_vars

\* a tool_result came before any tool_call and was dropped, the tool_call that
\* followed got the next result, and the message was finalized
C15_Witness ==
  /\ Len(returned) = 1
  /\ Len(returned[1].from) = 3
  /\ returned[1].from[1].event_type = "tool_result"
  /\ returned[1].from[1].result = "r1"
  /\ Len(heap[returned[1].lists].tool_calls) = 1
  /\ heap[returned[1].lists].tool_calls[1].result = "r2"

----------------------------------------------------------------------------
(* Claims on the Process Supervisor: start() and write() (SpecSup) *)

\* C16: with no API key, start() returns without throwing, emits one
\* process_error notification and nothing else, and spawns no child: the
\* handle stays non-running; write() then throws 'Process not running' and
\* writes nothing.
C16_StartWithoutKey ==
  /\ [](~apiKey =>
          /\ ~process /\ ~running /\ child = "none"
          /\ Len(emitted) = startCalls
          /\ \A i \in 1..Len(emitted) : emitted[i] = Notify("process_error", "config")
          /\ stdin = <<>>)
  /\ [][ (~apiKey /\ startCalls' = startCalls + 1)
           => /\ supRet' = "returned"
              /\ emitted' = Append(emitted, Notify("process_error", "config")) ]_vars
  /\ [][ (~apiKey /\ writeCalls' = writeCalls + 1)
           => /\ supRet' = "Process not running"
              /\ UNCHANGED <<stdin, emitted, process, running, child>> ]_vars

\* start() was called once without the key, then write()
C16_Witness ==
  /\ ~apiKey
  /\ startCalls = 1
  /\ writeCalls = 1
  /\ supRet = "Process not running"
  /\ emitted = <<Notify("process_error", "config")>>

----------------------------------------------------------------------------
(* Claims on the Connection Router: rejected frames (SpecFrames) *)

\* the frames the claim is about: text that is not JSON, a JSON value other
\* than null whose type is no intent, a message intent with blank content
Malformed(f) == ~f.json \/ ~f.null

----------------------------------------------------------------------------
(* Claims on the heartbeat (SpecHb) *)

\* C18: a run of the interval's callback closes the socket, with status 4003,
\* exactly when no pong was received since the run before it; otherwise it
\* sends a ping.  So with a pong after every ping the heartbeat never closes
\* the socket, and without any between two runs the second closes it.
C18_HeartbeatTimeout ==
  /\ [][ ticks' = ticks + 1
           => /\ (closeCalls' = closeCalls + 1) <=> (ticks > 0 /\ pongsSince = 0)
              /\ (closeCalls' = closeCalls) <=> (pingsSent' = pingsSent + 1)
              /\ (closeCalls' = closeCalls + 1 /\ socketState = "open")
                   => (socketState' = "closing" /\ closeCode' = 4003) ]_vars
  /\ [][ closeCalls' # closeCalls => ticks' = ticks + 1 ]_vars
  /\ [](closeCode \in {0, 4003})
  /\ [](closeCode = 4003 => closeCalls > 0)

\* a pong answered the first ping, none the second, and the third run of the
\* callback closed the socket
C18_Witness ==
  /\ ticks = 3
  /\ pingsSent = 2
  /\ closeCalls = 1
  /\ closeCode = 4003
  /\ socketState = "closing"

----------------------------------------------------------------------------
(* Claims on endSession called with every reason (SpecEnd) *)

\* C19: an endSession(id, reason) that returns (the id was registered when it
\* was called) returns the object {sessionId: id, reason, status} for the id
\* and reason it was called with, where status is 'error' for reason
\* 'error', 'aborted' for reason 'abort' and 'completed' for every other
\* reason, and that status is the persisted status of the session.
C19_ReasonToStatus ==
  /\ [](endReturned # NoReturn
          => /\ endReturned.sessionId \in Ids
             /\ endReturned.reason \in EndReasons
             /\ endReturned.status =
                  (CASE endReturned.reason = "error" -> "error"
                     [] endReturned.reason = "abort" -> "aborted"
                     [] OTHER -> "completed")
             /\ dbStatus[endReturned.sessionId] = endReturned.status
             /\ op = Op("endSession.return", None, endReturned.sessionId,
                        endReturned.status))
  /\ [][ endReturned' # NoReturn
           => \E t \in BagToSet(tasks) :
                /\ t.kind = "endSession"
                /\ t.sid = endReturned'.sessionId
                /\ t.reason = endReturned'.reason
                /\ BagCardinality(tasks') = BagCardinality(tasks) - 1 ]_vars
  /\ [][ \A id \in Ids :
           (dbStatus'[id] # dbStatus[id] /\ dbStatus'[id] \in {"error", "aborted", "completed"})
             => endReturned'.sessionId = id ]_vars

\* endSession returned for reason 'abort' after one for reason 'error' had
\* returned for another session
C19_Witness ==
  /\ endReturned.reason = "abort"
  /\ endReturned.status = "aborted"
  /\ \E i \in Ids : dbStatus[i] = "error"

----------------------------------------------------------------------------
(* Claims on the exit notification (SpecSup) *)

\* C20: the exit notification carries the exit code and the signal the child
\* ended with, and its reason is 'signal' when a signal is reported,
\* otherwise 'normal' when the exit code is 0, otherwise 'error'.
C20_ExitReason ==
  /\ [](\A i \in 1..Len(emitted) :
          emitted[i].kind = "exit"
            => LET d == emitted[i].data
               IN  /\ d.signal \in {"SIGTERM", "SIGKILL"} => d.reason = "signal"
                   /\ (d.signal = None /\ d.exit_code = 0) => d.reason = "normal"
                   /\ (d.signal = None /\ d.exit_code # 0) => d.reason = "error"
                   /\ d.reason \in {"signal", "normal", "error"})
  /\ [][ (Len(emitted') = Len(emitted) + 1 /\ emitted'[Len(emitted')].kind = "exit")
           => /\ emitted'[Len(emitted')].data.exit_code = exitStatus[1]
              /\ emitted'[Len(emitted')].data.signal = exitStatus[2] ]_vars

\* the exit notification of a child ended by the SIGKILL of the grace timer:
\* a null exit code and reason 'signal'
C20_Witness ==
  \E i \in 1..Len(emitted) :
    /\ emitted[i].kind = "exit"
    /\ emitted[i].data.signal = "SIGKILL"
    /\ emitted[i].data.exit_code = -1
    /\ emitted[i].data.reason = "signal"

----------------------------------------------------------------------------
(* Claims on the stdout path of the Supervisor (SpecSup) *)

\* the output notifications the spawner has emitted, in order
OutputsOf(notes) == SelectSeq(notes, LAMBDA n : n.kind = "output")

\* C21: the output notifications a Supervisor has emitted are, in order, the
\* events the Output Translator returns for the concatenation of the stdout
\* chunks the Supervisor has received.
C21_OutputsOfConcatenation ==
  LET whole == parse(NoRemaining, received).events
      outs == OutputsOf(emitted)
  IN  /\ Len(outs) = Len(whole)
      /\ \A i \in 1..Len(outs) : outs[i].data = whole[i]

----------------------------------------------------------------------------
(* Claims on the message intents of one connection (Spec) *)

\* C22: no two sessions that message intents of one connection created are
\* registered at the same time (every session of the model is created by a
\* message intent, for the connection whose socket it holds).
C22_OneSessionPerConnection ==
  \A i, j \in DOMAIN activeSessions :
    activeSessions[i].socket = activeSessions[j].socket => i = j

----------------------------------------------------------------------------
(* Claims on the end_session and new_session intents (SpecTurn) *)

\* C23: when the handling of an end_session or new_session intent completes,
\* the connection's bound session id is empty and the session the intent
\* ended is not registered; and the completion unbinds no other session than
\* the one the intent ended: a session that a later message intent created
\* and bound stays bound.
C23_EndIntentUnbindsItsSession ==
  /\ [][ \A t \in BagToSet(tasks) :
           (t.kind \in {"end_session", "new_session"} /\ tasks' = Finish(t))
             => /\ currentSessionId'[t.conn] = NoId
                /\ ~hasSession(t.sid)'
                /\ endReturned' =
                     Returned(t.sid,
                              IF t.kind = "end_session" THEN "user_ended" ELSE "new_session",
                              "completed")
                /\ currentSessionId[t.conn] \in {NoId, t.sid} ]_vars
  /\ [][ \A c \in Conns :
           (currentSessionId[c] # NoId /\ currentSessionId'[c] = NoId)
             => op'.sid = currentSessionId[c] ]_vars

----------------------------------------------------------------------------
(* Claims on the timeout of a session (SpecTimer) *)

\* C24: a registered session is, unless a further message intent is handled,
\* eventually ended with reason 'timeout' and then in neither index; a
\* message intent for a registered session sets the timeout anew, whole; and
\* a timeout fires for a session only when a whole SESSION_TIMEOUT_MS has
\* passed since the session was registered or last given a message intent.
C24_TimeoutEndsSession ==
  /\ \A id \in Ids : \A n \in 0..MaxMessages :
       (hasSession(id) /\ msgs = n)
         ~> \/ msgs > n
            \/ /\ ~hasSession(id)
               /\ \A u \in DOMAIN userSessions : id \notin userSessions[u]
               /\ endReturned = Returned(id, "timeout", "completed")
  /\ [][ (msgs' = msgs + 1 /\ op'.name = "resetTimeout")
           => (timer'[op'.sid] /\ left'[op'.sid] = SESSION_TIMEOUT_MS) ]_vars
  /\ [][ \A id \in Ids :
           (timer[id] /\ ~timer'[id]) => since[id] = SESSION_TIMEOUT_MS ]_vars

\* a session was given a message intent one tick after it was registered,
\* and its timeout has fired
C24_Witness ==
  \E id \in Ids :
    /\ hasSession(id)
    /\ msgs >= 2
    /\ ~timer[id]
    /\ op = Op("endSession", None, id, "pending")

----------------------------------------------------------------------------
(* Claims on a failed spawn (SpecSup) *)

\* C30: when the child could not be spawned, the handle is never running
\* after the start() call, no write() succeeds, at most one process_error
\* notification and no output or exit notification is emitted, and once the
\* 'error' event has been handled exactly one process_error was emitted.
C30_SpawnFailureNotRunning ==
  /\ [](child = "failed"
          => /\ ~running
             /\ \A i \in 1..Len(emitted) : emitted[i].kind \notin {"output", "exit"}
             /\ Cardinality({i \in 1..Len(emitted) : emitted[i].kind = "process_error"}) <= 1
             /\ exitEmitted
                  => Cardinality({i \in 1..Len(emitted) :
                                    emitted[i].kind = "process_error"}) = 1
             /\ stdin = <<>>)
  /\ [][ (child = "failed" /\ writeCalls' = writeCalls + 1)
           => supRet' = "Process not running" ]_vars

----------------------------------------------------------------------------
(* Claims on the Router with the Supervisor of its session (SpecRoute) *)

\* C25: every process_error notification the spawner of the session has
\* emitted was sent on the socket of the session, with the session's id.
C25_ProcessErrorForwarded ==
  Cardinality({i \in 1..Len(emitted) : emitted[i].kind = "process_error"})
    = Cardinality({j \in 1..Len(sockSent) :
                     sockSent[j] = Sent("process_error", RouteSession)})

\* the message_received notifications sent on the socket
Received == {j \in 1..Len(sockSent) : sockSent[j].type = "message_received"}
\* the user-role messages given to insertMessage
UserInserts == {j \in 1..Len(inserted) : inserted[j].role = "user"}

\* C26: write() is only called by a message handler resuming from the
\* insert of its user message, which sends message_received first and then
\* writes the content; a handler whose insert fails ends without calling
\* write() and without sending anything; so there are as many write() calls
\* as message_received notifications and as user messages inserted.
C26_WriteAfterInsert ==
  /\ [][ writeCalls' # writeCalls
           => \E t \in BagToSet(tasks) :
                /\ t.kind = "message" /\ t.pc = "insertMessage"
                /\ tasks' = Finish(t)
                /\ inserted' = Append(inserted, Message(t.sid, "user", Content, <<>>))
                /\ StartsWith(sockSent', Append(sockSent, Sent("message_received", t.sid)))
                /\ writeCalls' = writeCalls + 1
                /\ supRet' = "returned"
                     => stdin' = Append(stdin, Content \o <<"\n">>) ]_vars
  /\ [][ (\E t \in BagToSet(tasks) :
            t.pc = "insertMessage" /\ tasks' = Finish(t) /\ inserted' = inserted)
           => UNCHANGED <<stdin, writeCalls, sockSent>> ]_vars
  /\ [][ stdin' # stdin => writeCalls' # writeCalls ]_vars
  /\ [](writeCalls = Cardinality(Received) /\ writeCalls = Cardinality(UserInserts))

\* C26: a message handler has inserted the user message, sent
\* message_received and written the content to the running child
C26_Witness ==
  /\ op.name = "write" /\ op.ret = "returned"
  /\ stdin = <<Content \o <<"\n">> >>
  /\ inserted # <<>> /\ inserted[Len(inserted)] = Message(op.sid, "user", Content, <<>>)
  /\ sockSent[Len(sockSent)] = Sent("message_received", op.sid)

\* the error notifications sent on the socket
ErrorsSent == {j \in 1..Len(sockSent) : sockSent[j].type = "error"}

\* C27: start() on a running handle throws 'Process already running' and
\* leaves the child, the handle and the running flag as they were; write()
\* on a handle that is not running throws 'Process not running' and leaves
\* stdin and the running flag as they were; when the write of a message
\* handler throws, the handler sends message_received and then one error
\* with the session's id, and the socket stays open, the connection bound
\* and the session registered with its timer; no other step sends an error.
C27_UsageErrorLeavesIntact ==
  /\ [][ (startCalls' # startCalls /\ running)
           => /\ supRet' = "Process already running"
              /\ UNCHANGED <<process, running, child, exitStatus, exitEmitted, pipe,
                             emitted, stdin>> ]_vars
  /\ [][ (writeCalls' # writeCalls /\ ~(process /\ running))
           => /\ supRet' = "Process not running"
              /\ UNCHANGED <<process, running, child, stdin, emitted>> ]_vars
  /\ [][ (writeCalls' # writeCalls /\ supRet' # "returned")
           => /\ sockSent' = sockSent \o <<Sent("message_received", op'.sid),
                                           Sent("error", op'.sid)>>
              /\ op'.sid \in DOMAIN activeSessions'
              /\ currentSessionId'[op'.conn] = op'.sid
              /\ UNCHANGED <<readyState, currentSessionId, activeSessions, userSessions,
                             timer, isRunning>> ]_vars
  /\ [][ ErrorsSent' # ErrorsSent
           => writeCalls' # writeCalls /\ supRet' # "returned" ]_vars
  /\ [][ writeCalls' # writeCalls => UNCHANGED running ]_vars

\* C27: start() was called on the running handle and threw, the one child
\* still running; later the child ended and the write of a message handler
\* threw, one error was sent, the socket open and the session bound
C27_Witness ==
  /\ startCalls = 2
  /\ op.name = "write" /\ op.ret = "Process not running"
  /\ Cardinality(ErrorsSent) = 1
  /\ sockSent[Len(sockSent)] = Sent("error", RouteSession)
  /\ readyState[RouteConn] = 1
  /\ currentSessionId[RouteConn] = RouteSession
  /\ hasSession(RouteSession)
  /\ stdin = <<>>

\* the exit notifications the spawner has emitted
ExitNotes == {i \in 1..Len(emitted) : emitted[i].kind = "exit"}
\* the assistant-role messages given to insertMessage
AssistantInserts == {j \in 1..Len(inserted) : inserted[j].role = "assistant"}

\* C28: the step in which the spawner emits its exit notification finalizes
\* the aggregator once and inserts one assistant message, made of the
\* finalized record, exactly when the record's trimmed content is not empty
\* or it has a tool call; finalize() is called and an assistant message is
\* inserted in no other step; so there are never more assistant messages
\* than exit notifications, and every event an assistant message was made
\* of is an output notification of the session's spawner.
C28_ExitPersistsAggregate ==
  /\ [][ ExitNotes' # ExitNotes
           => /\ listening
              /\ sockSent' = Append(sockSent, Sent("exit", RouteSession))
              /\ returned' = Append(returned, [content |-> Trim(msgContent),
                                               lists |-> msgLists, from |-> added])
              /\ added' = <<>> /\ msgContent' = <<>>
              /\ LET rec == returned'[Len(returned')]
                 IN  IF rec.content # <<>> \/ Len(heap'[rec.lists].tool_calls) > 0
                     THEN inserted' = Append(inserted,
                                        Message(RouteSession, "assistant", rec.content, rec.from))
                     ELSE inserted' = inserted ]_vars
  /\ [][ (returned' # returned \/ AssistantInserts' # AssistantInserts)
           => Cardinality(ExitNotes') = Cardinality(ExitNotes) + 1 ]_vars
  /\ [](/\ Cardinality(AssistantInserts) <= Cardinality(ExitNotes)
        /\ Len(returned) = Cardinality(ExitNotes)
        /\ \A j \in AssistantInserts :
             /\ inserted[j].session_id = RouteSession
             /\ \A k \in 1..Len(inserted[j].from) :
                  \E i \in 1..Len(emitted) :
                    emitted[i] = Notify("output", inserted[j].from[k]))

\* C28: the child wrote a line of text and ended; the exit notification was
\* forwarded and the assistant message made of that text was inserted
C28_Witness ==
  /\ Cardinality(ExitNotes) = 1
  /\ Len(returned) = 1
  /\ Cardinality(AssistantInserts) = 1
  /\ \E j \in AssistantInserts :
       inserted[j].content # <<>> /\ Len(inserted[j].from) >= 1
  /\ sockSent[Len(sockSent)] = Sent("exit", RouteSession)

\* C28: the child ended without output; the aggregator was finalized and no
\* assistant message was inserted
C28_WitnessEmpty ==
  /\ Cardinality(ExitNotes) = 1
  /\ Len(returned) = 1
  /\ returned[1].content = <<>>
  /\ AssistantInserts = {}

\* C29: an abort intent whose target is a registered session with a running
\* handle sends one SIGINT and nothing else: the handle stays running with
\* its child, the session stays registered with its timer set and the
\* connection stays bound as it was; an abort intent whose target is absent
\* or not registered, or whose handle is not running, sends no signal; no
\* abort intent sends anything on the socket or to the child's stdin.
C29_AbortOnlyInterrupts ==
  [][ aborts' # aborts
        => /\ op'.name = "abort"
           /\ sigint' = IF op'.sid # NoId /\ hasSession(op'.sid) /\ process /\ running
                        THEN sigint + 1 ELSE sigint
           /\ (op'.sid = NoId \/ ~hasSession(op'.sid)) => op'.ret = "noop"
           /\ (op'.sid # NoId /\ hasSession(op'.sid)) => timer[op'.sid]
           /\ UNCHANGED <<process, running, child, exitStatus, exitEmitted, sigterm,
                          sigkill, graceTimers, stdin, emitted, pipe>>
           /\ UNCHANGED <<activeSessions, userSessions, timer, isRunning, kills,
                          currentSessionId, readyState, dbStatus, tasks, updates>>
           /\ UNCHANGED <<sockSent, inserted, listening, aggVars>> ]_vars

\* C29: abort() was called on the running handle of the bound session: one
\* SIGINT sent, the handle running, the session registered, timed and bound
C29_Witness ==
  /\ op.name = "abort" /\ op.ret = "called" /\ op.sid = RouteSession
  /\ sigint = 1
  /\ process /\ running /\ child = "running"
  /\ hasSession(RouteSession) /\ timer[RouteSession]
  /\ currentSessionId[RouteConn] = RouteSession

\* C29: an abort intent without a registered target did nothing
C29_WitnessNoTarget ==
  /\ op.name = "abort" /\ op.ret = "noop"
  /\ aborts = 1 /\ sigint = 0 /\ sockSent = <<>>

----------------------------------------------------------------------------
(* Claims on the Registry and the Router with two users (SpecOwners,       *)
(* SpecShutdown)                                                           *)

\* the calls a message or abort intent makes on a session: resetTimeout
\* and write() of handleUserMessage, abort() of handleAbort
OnSession(o) ==
  \/ o.name \in {"resetTimeout", "write"}
  \/ o.name = "abort" /\ o.ret = "called"

\* C31: when the call that ran last is the resetTimeout, write() or abort()
\* of an intent, and the session it was made on is registered, the owner of
\* the session is the user of the intent's connection.
C31_NoCrossOwnerAccess ==
  (OnSession(op) /\ hasSession(op.sid))
    => activeSessions[op.sid].userId = UserOf(op.conn)

\* the ids registered in activeSessions with owner u
OwnedBy(u) == {id \in DOMAIN activeSessions : activeSessions[id].userId = u}

\* C32: an id is in activeSessions with owner u exactly when it is in
\* userSessions[u]; userSessions holds no empty set; and
\* getActiveSessionCount(u) is the number of entries of activeSessions
\* whose owner is u.
C32_IndicesAgree ==
  /\ \A id \in DOMAIN activeSessions :
       /\ activeSessions[id].userId \in DOMAIN userSessions
       /\ id \in userSessions[activeSessions[id].userId]
  /\ \A u \in DOMAIN userSessions :
       /\ userSessions[u] # {}
       /\ userSessions[u] = OwnedBy(u)
  /\ \A u \in Users : getActiveSessionCount(u) = Cardinality(OwnedBy(u))

\* C32: the shutdown's endSession of one user's session has returned, the
\* user's set removed with it, while the session of the other user, started
\* in the meantime, is registered in both indices
C32_Witness ==
  /\ endReturned.reason = "shutdown"
  /\ \E u \in Users : \E v \in Users :
       /\ u # v
       /\ u \notin DOMAIN userSessions
       /\ v \in DOMAIN userSessions
       /\ Cardinality(OwnedBy(v)) = 1
       /\ OwnedBy(v) = userSessions[v]

\* the reasons the callers of endSession pass: websocket-handler.js lines
\* 79 and 87, part_001 lines 47, 91, 153 and 163
CallerReasons == {"user_ended", "new_session", "timeout", "disconnect", "shutdown"}

\* C35: every endSession call that is awaiting its status update was made
\* with one of the callers' five reasons, never 'abort' or 'error'; every
\* endSession that returns returns status 'completed'; and the persisted
\* status of a session is only ever 'active' or 'completed'.
C35_OnlyCompleted ==
  /\ \A t \in BagToSet(tasks) :
       t.pc = "updateSessionStatus" => t.reason \in CallerReasons
  /\ endReturned # NoReturn
       => endReturned.reason \in CallerReasons /\ endReturned.status = "completed"
  /\ \A id \in Ids : dbStatus[id] \in {"none", "active", "completed"}

\* C35: both sessions have ended, the last one by its timeout, and both
\* are persisted as completed
C35_Witness ==
  /\ endReturned.reason = "timeout"
  /\ endReturned.status = "completed"
  /\ \A id \in Ids : dbStatus[id] = "completed"

----------------------------------------------------------------------------
(* Claims on a session whose child is not running (SpecRoute) *)

\* the step emits an exit or a process_error notification
ChildGone ==
  /\ Len(emitted') = Len(emitted) + 1
  /\ emitted'[Len(emitted')].kind \in {"exit", "process_error"}

\* the session is registered and its handle is not running
Dead == hasSession(RouteSession) /\ ~running

\* a registered session is left registered, counted, timed, bound and
\* without a new child by the exit or error of its child, and afterwards
\* stays as it is in every step of the Router, no endSession being called
DeadStays ==
  /\ [][ (hasSession(RouteSession) /\ ChildGone)
           => /\ ~running'
              /\ UNCHANGED <<activeSessions, userSessions, timer, currentSessionId,
                             startCalls, process, child, kills, updates, dbStatus>> ]_vars
  /\ [][ Dead => /\ Dead'
                 /\ UNCHANGED <<activeSessions, userSessions, child, process>> ]_vars
  /\ [](Dead => /\ getActiveSessionCount(UserOf(RouteConn)) = 1
                /\ ~canCreateSession(UserOf(RouteConn))
                /\ timer[RouteSession])

\* the handler t of a message intent ends in the step, the session it is
\* for being registered with a handle that is not running
EndsOnDead(t) ==
  /\ t.kind = "message" /\ t.pc = "insertMessage"
  /\ tasks' = Finish(t)
  /\ t.sid = RouteSession /\ Dead

\* the step sends the error of a failed write, with the session's id, last
WriteErrorSent(id) ==
  /\ Cardinality(ErrorsSent') = Cardinality(ErrorsSent) + 1
  /\ sockSent'[Len(sockSent')] = Sent("error", id)
  /\ supRet' = "Process not running"
  /\ UNCHANGED stdin

C33_WitnessLater ==
  /\ Cardinality(ExitNotes) = 1
  /\ Dead
  /\ op.name = "resetTimeout" /\ op.sid = RouteSession

----------------------------------------------------------------------------
(* Claims on a connection that closes (SpecClosed) *)

\* the notifications the step sends on the socket
NewSent == SubSeq(sockSent', Len(sockSent) + 1, Len(sockSent'))

\* C34: endSession sends its session_end notification only when the socket
\* of the session is open, and no output, error_output, exit or
\* process_error notification of the session is sent on the socket once it
\* is closed.
C34_NoSendOnClosed ==
  /\ [][ \A id \in DOMAIN activeSessions :
           endNotes'[id] # endNotes[id]
             => readyState'[activeSessions[id].socket] = 1 ]_vars
  /\ [][ \A j \in 1..Len(NewSent) :
           NewSent[j].type \in {"output", "error_output", "exit", "process_error"}
             => readyState[RouteConn] = 1 ]_vars

====
